---- MODULE Spec2Model ----
(***************************************************************************)
(* Decision core of the Gold prediction system: the high-impact news       *)
(* blocker (news_blocker.py), the news assessment (news_integration.py),   *)
(* the rule filter (rules_engine.py), the risk sizer (risk_engine.py) and  *)
(* the per-timeframe arbiter of live mode (live_predictor.py).             *)
(*                                                                         *)
(* Units: time in minutes; probabilities and confidences in millionths;    *)
(* single risk multipliers in hundredths, the combined one in              *)
(* ten-thousandths; prices and ATR in cents; lots in steps of 0.01;        *)
(* risk percentages in millionths of a percent; risk amounts in            *)
(* hundredths of a cent.                                                   *)
(***************************************************************************)
EXTENDS Integers, Sequences, FiniteSets, TLC

VARIABLES now, active_blocks, seen_events, last_block_status, last_fetch_time,
          news_enabled, models, fitted, results, pos, last,
          raised, audit_rows, htf_source, sched, call, decision_history,
          state_file

vars == <<now, active_blocks, seen_events, last_block_status, last_fetch_time,
          news_enabled, models, fitted, results, pos, last,
          raised, audit_rows, htf_source, sched, call, decision_history,
          state_file>>


(***************************************************************************)
(* Bounds of the model.                                                    *)
(***************************************************************************)
MaxNow == 90
MaxItems == 1
MaxBlocks == 2
NumTF == 3
MaxCycleNow == 30
MaxThreads == 2
MaxHistory == 2
TickSteps == {30}

(***************************************************************************)
(* news_blocker.py: configuration defaults and the event-type table.       *)
(***************************************************************************)
max_news_age_minutes == 60
high_impact_block_minutes == 90
impact_relevance_window_minutes == 180
DuplicateWindowMinutes == 60

NewsTypes == {"FED_SIGNALS", "FOMC_DECISION", "FOMC_SPEECH", "CPI", "NFP", "PCE"}

cooldown_minutes(news_type) ==
    CASE news_type = "FED_SIGNALS" -> 90
      [] news_type = "FOMC_DECISION" -> 150
      [] news_type = "FOMC_SPEECH" -> 150
      [] news_type = "CPI" -> 75
      [] news_type = "NFP" -> 75
      [] news_type = "PCE" -> 75
      [] OTHER -> 90

\* Sample headlines; classify_news and _create_event_signature are given by
\* what the keyword / regex tables and the normalisation do on them.
H_FOMC == "FOMC meeting statement released"
H_FOMC_VAR == "FOMC  Meeting Statement Released"
H_CPI == "CPI report shows higher inflation"
H_GOLD == "Gold prices rise on safe haven demand"
H_ANALYST == "Analyst says CPI report will show hot inflation"

Headlines == {H_FOMC, H_FOMC_VAR, H_CPI, H_GOLD, H_ANALYST}

\* news_fetcher.COMMENTARY_PATTERNS ('analyst says', 'economist expects',
\* ...): whether a headline is analyst or speculative language
is_commentary(headline) == headline = H_ANALYST

\* classify_news: the news type of a headline, "NONE" when no keyword or
\* pattern of any type matches.
classify_news(headline) ==
    CASE headline = H_FOMC -> "FOMC_DECISION"
      [] headline = H_FOMC_VAR -> "FOMC_DECISION"
      [] headline = H_CPI -> "CPI"
      [] headline = H_ANALYST -> "CPI"
      [] OTHER -> "NONE"

\* ' '.join(headline.lower().split())
NormalizeHeadline(headline) ==
    CASE headline = H_FOMC -> "fomc meeting statement released"
      [] headline = H_FOMC_VAR -> "fomc meeting statement released"
      [] headline = H_CPI -> "cpi report shows higher inflation"
      [] headline = H_ANALYST -> "analyst says cpi report will show hot inflation"
      [] OTHER -> "gold prices rise on safe haven demand"

create_event_signature(headline, news_type) ==
    <<news_type, NormalizeHeadline(headline)>>

Abs(x) == IF x < 0 THEN -x ELSE x
Min(a, b) == IF a < b THEN a ELSE b
Max(a, b) == IF a > b THEN a ELSE b

(***************************************************************************)
(* NewsBlock                                                               *)
(***************************************************************************)
NewsBlock(news_type, origin, fetch, headline, classification) ==
    [news_type |-> news_type,
     origin_timestamp |-> origin,
     fetch_timestamp |-> fetch,
     headline |-> headline,
     classification |-> classification,
     cooldown_minutes |-> cooldown_minutes(news_type),
     block_until |-> origin + cooldown_minutes(news_type)]

is_active(b, t) == t < b.block_until

minutes_remaining(b, t) == IF is_active(b, t) THEN b.block_until - t ELSE 0

(***************************************************************************)
(* News items.  An item carries a headline, an origin timestamp that may   *)
(* be missing or unparseable (has_origin = FALSE), and a fetch timestamp   *)
(* that is absent, unparseable ("bad") or parsed ("ok").                   *)
(***************************************************************************)
Item(headline, has_origin, origin, fetch_kind, fetch) ==
    [headline |-> headline, has_origin |-> has_origin, origin |-> origin,
     fetch_kind |-> fetch_kind, fetch |-> fetch]

\* The items a fetch at time t may deliver.
ItemChoices(t) ==
    { Item(H_FOMC, TRUE, t - 10, "ok", t - 1),
      Item(H_FOMC_VAR, TRUE, t - 10, "absent", t),
      Item(H_FOMC, TRUE, t - 75, "ok", t - 1),
      Item(H_CPI, TRUE, t - 10, "ok", t - 1),
      Item(H_CPI, TRUE, t - 75, "ok", t - 1),
      Item(H_FOMC, TRUE, t - 200, "ok", t - 1),
      Item(H_FOMC, TRUE, t - 10, "ok", t - 61),
      Item(H_FOMC, FALSE, t, "ok", t - 1),
      Item(H_FOMC, TRUE, t - 10, "bad", t),
      Item(H_GOLD, TRUE, t - 10, "ok", t - 1) }

ItemLists(t) ==
    UNION { [1..n -> ItemChoices(t)] : n \in 0..MaxItems }

\* validate_and_parse_timestamps without the fetch-age ceiling
validate_without_fetch_age(item, fetch_time) ==
    LET fetch_timestamp == IF item.fetch_kind = "ok" THEN item.fetch ELSE fetch_time
        origin_age == fetch_time - item.origin
        cls == IF ~item.has_origin THEN "UNVERIFIED"
               ELSE IF item.fetch_kind = "bad" THEN "UNVERIFIED"
               ELSE IF origin_age > impact_relevance_window_minutes THEN "STALE_CONTEXT"
               ELSE "LIVE_EVENT"
    IN [origin |-> item.origin, fetch |-> fetch_timestamp, classification |-> cls]

\* _validate_and_parse_timestamps: (origin, fetch, classification)
validate_and_parse_timestamps(item, fetch_time) ==
    LET fetch_ok == item.fetch_kind # "bad"
        fetch_timestamp == IF item.fetch_kind = "ok" THEN item.fetch ELSE fetch_time
        fetch_age == fetch_time - fetch_timestamp
        origin_age == fetch_time - item.origin
        cls == IF ~item.has_origin THEN "UNVERIFIED"
               ELSE IF ~fetch_ok THEN "UNVERIFIED"
               ELSE IF fetch_age > max_news_age_minutes THEN "EXPIRED"
               ELSE IF origin_age > impact_relevance_window_minutes THEN "STALE_CONTEXT"
               ELSE "LIVE_EVENT"
    IN [origin |-> item.origin, fetch |-> fetch_timestamp, classification |-> cls]

\* The dedup table _seen_events is a dictionary signature -> origin, kept as
\* a set of [sig, origin] entries with at most one entry per signature.
SeenHas(seen, sig) == \E e \in seen : e.sig = sig
SeenGet(seen, sig) == (CHOOSE e \in seen : e.sig = sig).origin
SeenPut(seen, sig, origin) ==
    { e \in seen : e.sig # sig } \cup { [sig |-> sig, origin |-> origin] }

\* One iteration of the loop of detect_high_impact_news over an item: the
\* block it appends (if any) and the dedup table after it.
DetectItem(item, t, seen) ==
    LET v == validate_and_parse_timestamps(item, t)
        news_type == classify_news(item.headline)
        sig == create_event_signature(item.headline, news_type)
        skip == [blocks |-> <<>>, seen |-> seen]
    IN IF v.classification \in {"UNVERIFIED", "EXPIRED"} THEN skip
       ELSE IF news_type = "NONE" THEN skip
       ELSE IF v.classification = "STALE_CONTEXT"
            THEN IF SeenHas(seen, sig) /\ v.origin <= SeenGet(seen, sig)
                 THEN skip
                 ELSE [blocks |-> <<>>, seen |-> SeenPut(seen, sig, v.origin)]
       ELSE IF v.classification # "LIVE_EVENT" THEN skip
       ELSE IF t - v.origin > high_impact_block_minutes THEN skip
       ELSE [blocks |-> << NewsBlock(news_type, v.origin, v.fetch,
                                     item.headline, v.classification) >>,
             seen |-> SeenPut(seen, sig, v.origin)]

RECURSIVE detect_high_impact_news(_, _, _)
detect_high_impact_news(items, t, seen) ==
    IF items = <<>> THEN [blocks |-> <<>>, seen |-> seen]
    ELSE LET d == DetectItem(Head(items), t, seen)
             r == detect_high_impact_news(Tail(items), t, d.seen)
         IN [blocks |-> d.blocks \o r.blocks, seen |-> r.seen]

\* The pruning comprehension at the head of update_active_blocks.
BlockSurvives(b, t) ==
    /\ is_active(b, t)
    /\ t - b.origin_timestamp <= high_impact_block_minutes
    /\ t - b.fetch_timestamp <= max_news_age_minutes
    /\ b.classification = "LIVE_EVENT"

PruneBlocks(blocks, t) == SelectSeq(blocks, LAMBDA b : BlockSurvives(b, t))

IsDuplicate(blocks, nb) ==
    \E i \in 1..Len(blocks) :
        /\ blocks[i].news_type = nb.news_type
        /\ Abs(blocks[i].origin_timestamp - nb.origin_timestamp) < DuplicateWindowMinutes

RECURSIVE AddNewBlocks(_, _)
AddNewBlocks(blocks, new_blocks) ==
    IF new_blocks = <<>> THEN blocks
    ELSE AddNewBlocks(IF IsDuplicate(blocks, Head(new_blocks)) THEN blocks
                      ELSE Append(blocks, Head(new_blocks)),
                      Tail(new_blocks))

\* update_active_blocks(news_items, fetch_time = t): the blocker's state after it
update_active_blocks(blocks, seen, items, t) ==
    LET d == detect_high_impact_news(items, t, seen)
    IN [blocks |-> AddNewBlocks(PruneBlocks(blocks, t), d.blocks), seen |-> d.seen]

\* is_blocked: the first block of the list whose cooldown has not expired
FirstActive(blocks, t) ==
    LET idx == { i \in 1..Len(blocks) : is_active(blocks[i], t) }
    IN IF idx = {} THEN 0 ELSE CHOOSE i \in idx : \A j \in idx : i <= j

NoStatus == [is_blocked |-> FALSE, can_trade |-> TRUE, news_event |-> "NONE",
             classification |-> "NONE", block_until |-> 0, origin_timestamp |-> 0,
             minutes_remaining |-> 0]

\* get_block_status without the age double-check: the first block in cooldown
get_block_status_cooldown_only(blocks, t) ==
    LET i == FirstActive(blocks, t)
    IN IF i = 0 THEN NoStatus
       ELSE [is_blocked |-> TRUE, can_trade |-> FALSE,
             news_event |-> blocks[i].news_type,
             classification |-> blocks[i].classification,
             block_until |-> blocks[i].block_until,
             origin_timestamp |-> blocks[i].origin_timestamp,
             minutes_remaining |-> minutes_remaining(blocks[i], t)]

\* get_block_status(now = t)
get_block_status(blocks, t) ==
    LET i == FirstActive(blocks, t)
    IN IF i = 0 THEN NoStatus
       ELSE LET b == blocks[i]
            IN IF \/ t - b.origin_timestamp > high_impact_block_minutes
                  \/ t - b.fetch_timestamp > max_news_age_minutes
                  \/ b.classification # "LIVE_EVENT"
               THEN NoStatus
               ELSE [is_blocked |-> TRUE, can_trade |-> FALSE,
                     news_event |-> b.news_type,
                     classification |-> b.classification,
                     block_until |-> b.block_until,
                     origin_timestamp |-> b.origin_timestamp,
                     minutes_remaining |-> minutes_remaining(b, t)]

(***************************************************************************)
(* regime.py: RegimeDetector.detect on an indicator snapshot               *)
(*   snap = [rows, close, high, low, atr, atr_avg, adx, bbw_pct]           *)
(* (prices and ATR in cents, ADX and band-width percentile in whole units) *)
(***************************************************************************)
TF_HIERARCHY == <<"1d", "4h", "1h", "30m", "15m">>

adx_strong(tf) ==
    CASE tf = "15m" -> 45 [] tf = "30m" -> 42 [] tf = "1h" -> 40
      [] tf = "4h" -> 35 [] tf = "1d" -> 30 [] OTHER -> 40

adx_weak(tf) ==
    CASE tf = "15m" -> 30 [] tf = "30m" -> 28 [] tf = "1h" -> 25
      [] tf = "4h" -> 22 [] tf = "1d" -> 20 [] OTHER -> 25

\* atr_spike in tenths
atr_spike(tf) ==
    CASE tf = "15m" -> 30 [] tf = "30m" -> 28 [] tf = "1h" -> 25
      [] tf = "4h" -> 23 [] tf = "1d" -> 20 [] OTHER -> 25

bbw_squeeze(tf) ==
    CASE tf = "15m" -> 15 [] tf = "30m" -> 18 [] tf = "1h" -> 20
      [] tf = "4h" -> 22 [] tf = "1d" -> 25 [] OTHER -> 20

MinRegimeRows == 50

\* The final "Default: Range" return formats its reason with an invalid
\* format specifier, raises ValueError and leaves through the except
\* clause, which returns UNKNOWN.
detect(snap, tf) ==
    IF snap.rows < MinRegimeRows THEN "UNKNOWN"
    ELSE IF snap.atr_avg > 0 /\ snap.atr * 10 > atr_spike(tf) * snap.atr_avg
         THEN "HIGH_VOLATILITY_NO_TRADE"
    ELSE IF snap.adx > adx_strong(tf) THEN "STRONG_TREND"
    ELSE IF snap.adx > adx_weak(tf) THEN "WEAK_TREND"
    ELSE IF snap.bbw_pct < bbw_squeeze(tf) THEN "RANGE"
    ELSE "UNKNOWN"

(***************************************************************************)
(* rules_engine.py: TradeRulesEngine.check_trade                           *)
(*   confidence is the percentage with two decimals, in hundredths of a    *)
(*   percent; min_atr is thresholds.min_atr[timeframe] (0 when unset)      *)
(***************************************************************************)
min_confidence == 550000
allowed_regimes == {"STRONG_TREND", "WEAK_TREND"}

\* conf_value / 100.0 if conf_value > 1 else conf_value, in millionths
conf_decimal(conf_pct) == IF conf_pct > 100 THEN conf_pct * 100 ELSE conf_pct * 10000

\* check_trade rejecting a confidence equal to the minimum
check_trade_above_minimum(conf_pct, regime_state, current_atr, min_atr) ==
    IF regime_state \notin allowed_regimes
    THEN IF regime_state = "RANGE" THEN <<"NO_TRADE", "RANGE_MARKET">>
         ELSE IF regime_state = "HIGH_VOLATILITY_NO_TRADE"
              THEN <<"NO_TRADE", "HIGH_VOLATILITY">>
         ELSE <<"NO_TRADE", "REGIME_FILTER">>
    ELSE IF conf_decimal(conf_pct) <= min_confidence
         THEN <<"NO_TRADE", "LOW_CONFIDENCE">>
    ELSE IF current_atr # 0 /\ min_atr > 0 /\ current_atr < min_atr
         THEN <<"NO_TRADE", "LOW_VOLATILITY">>
    ELSE <<"TRADE", "NONE">>

check_trade(conf_pct, regime_state, current_atr, min_atr) ==
    IF regime_state \notin allowed_regimes
    THEN IF regime_state = "RANGE" THEN <<"NO_TRADE", "RANGE_MARKET">>
         ELSE IF regime_state = "HIGH_VOLATILITY_NO_TRADE"
              THEN <<"NO_TRADE", "HIGH_VOLATILITY">>
         ELSE <<"NO_TRADE", "REGIME_FILTER">>
    ELSE IF conf_decimal(conf_pct) < min_confidence
         THEN <<"NO_TRADE", "LOW_CONFIDENCE">>
    ELSE IF current_atr # 0 /\ min_atr > 0 /\ current_atr < min_atr
         THEN <<"NO_TRADE", "LOW_VOLATILITY">>
    ELSE <<"TRADE", "NONE">>

\* the codes get_rejection_message maps to a message
REJECTION_MESSAGES ==
    {"LOW_CONFIDENCE", "HTF_CONFLICT", "BAD_RR", "HIGH_VOLATILITY", "RANGE_MARKET",
     "LOW_VOLATILITY", "REGIME_FILTER", "SL_TOO_TIGHT", "ZERO_RISK",
     "LOT_CALC_ERROR", "INSUFFICIENT_DATA", "HIGH_IMPACT_NEWS",
     "CALENDAR_BLACKOUT", "EVENT_IMMINENT", "NEWS_NEGATIVE_SENTIMENT"}

\* thresholds.get('min_atr', {}).get(timeframe, 0) under the default configuration
min_atr_for(tf) == 0

(***************************************************************************)
(* risk_engine.py: RiskManager                                             *)
(***************************************************************************)
min_sl_dist == 50
min_rr_ratio == 2
max_risk_pct == 2000000
base_risk_pct == 1000000
account_balance == 10000
min_lot == 1
max_lot == 1000
MinRiskRows == 5

\* _calculate_levels: <<sl_price, tp_price>> in cents
calculate_levels(snap, direction, regime) ==
    LET entry == snap.close
        atr_buffer == (snap.atr * 3) \div 10
        atr_stop == (snap.atr * 15) \div 10
        max_sl_dist == entry \div 20
        reward_mult == IF regime = "STRONG_TREND" THEN 3 ELSE 2
    IN IF direction = "UP"
       THEN LET structure_sl == snap.low - atr_buffer
                volatility_sl == entry - atr_stop
                sl0 == IF structure_sl >= entry THEN volatility_sl
                       ELSE Min(structure_sl, volatility_sl)
                sl == IF entry - sl0 > max_sl_dist THEN entry - atr_stop ELSE sl0
            IN <<sl, entry + (entry - sl) * reward_mult>>
       ELSE LET structure_sl == snap.high + atr_buffer
                volatility_sl == entry + atr_stop
                sl0 == IF structure_sl <= entry THEN volatility_sl
                       ELSE Max(structure_sl, volatility_sl)
                sl == IF sl0 - entry > max_sl_dist THEN entry + atr_stop ELSE sl0
            IN <<sl, entry - (sl - entry) * reward_mult>>

\* _get_base_risk, in millionths of a percent
get_base_risk(confidence, regime) ==
    LET regime_factor == CASE regime = "STRONG_TREND" -> 10
                           [] regime = "WEAK_TREND" -> 8
                           [] regime = "RANGE" -> 5
                           [] regime = "HIGH_VOLATILITY_NO_TRADE" -> 0
                           [] OTHER -> 5
        conf_factor == IF confidence > 750000 THEN 11
                       ELSE IF confidence < 550000 THEN 8 ELSE 10
    IN (base_risk_pct \div 100) * regime_factor * conf_factor

\* _calculate_lots rounding up to the lot step
calculate_lots_rounded_up(risk_usd, stop_distance_price) ==
    IF stop_distance_price <= 0 THEN 0
    ELSE IF risk_usd <= 0 THEN 0
    ELSE LET lots == (risk_usd + stop_distance_price * 100 - 1)
                         \div (stop_distance_price * 100)
         IN IF lots < min_lot THEN 0
            ELSE IF lots > max_lot THEN max_lot ELSE lots

\* _calculate_lots: risk in hundredths of a cent, stop distance in cents,
\* result in lot steps of 0.01 (contract_size 100, lot_step 0.01)
calculate_lots(risk_usd, stop_distance_price) ==
    IF stop_distance_price <= 0 THEN 0
    ELSE IF risk_usd <= 0 THEN 0
    ELSE LET lots == risk_usd \div (stop_distance_price * 100)
         IN IF lots < min_lot THEN 0
            ELSE IF lots > max_lot THEN max_lot ELSE lots

\* A setup dictionary; a key the code leaves out reads as 0, as in
\* setup.get(key, 0).
Setup(decision, reason, lots, risk_amount, risk_pct, sl_dist, rr_ok) ==
    [decision |-> decision, reason |-> reason, lots |-> lots,
     risk_amount |-> risk_amount, risk_pct |-> risk_pct,
     stop_distance |-> sl_dist, rr_ok |-> rr_ok]

\* calculate_trade_params without the minimum stop distance
calculate_trade_params_any_stop(snap, direction, confidence, multiplier, regime) ==
    IF snap.rows < MinRiskRows
    THEN Setup("NO_TRADE", "INSUFFICIENT_DATA", 0, 0, 0, 0, FALSE)
    ELSE
    LET lv == calculate_levels(snap, direction, regime)
        sl_dist == Abs(snap.close - lv[1])
        gain == Abs(lv[2] - snap.close)
        rr_ok == sl_dist > 0 /\ gain >= min_rr_ratio * sl_dist
        base == get_base_risk(confidence, regime)
        final_risk_pct == Min((base \div 10000) * multiplier, max_risk_pct)
        risk_amount == ((account_balance \div 100) * final_risk_pct) \div 100
        lots == calculate_lots(risk_amount, sl_dist)
    IN IF ~rr_ok
       THEN Setup("NO_TRADE", "BAD_RR", 0, 0, 0, sl_dist, FALSE)
       ELSE IF multiplier <= 0
       THEN Setup("NO_TRADE", "HTF_CONFLICT", 0, 0, 0, sl_dist, TRUE)
       ELSE IF final_risk_pct <= 0
       THEN Setup("NO_TRADE", "ZERO_RISK", 0, 0, 0, sl_dist, TRUE)
       ELSE IF lots <= 0
       THEN Setup("NO_TRADE", "LOT_CALC_ERROR", 0, risk_amount, 0, sl_dist, TRUE)
       ELSE Setup("TRADE", "NONE", lots, risk_amount, final_risk_pct, sl_dist, TRUE)

\* calculate_trade_params; multiplier in ten-thousandths
calculate_trade_params(snap, direction, confidence, multiplier, regime) ==
    IF snap.rows < MinRiskRows
    THEN Setup("NO_TRADE", "INSUFFICIENT_DATA", 0, 0, 0, 0, FALSE)
    ELSE
    LET lv == calculate_levels(snap, direction, regime)
        sl_dist == Abs(snap.close - lv[1])
        gain == Abs(lv[2] - snap.close)
        rr_ok == sl_dist > 0 /\ gain >= min_rr_ratio * sl_dist
        base == get_base_risk(confidence, regime)
        final_risk_pct == Min((base \div 10000) * multiplier, max_risk_pct)
        risk_amount == ((account_balance \div 100) * final_risk_pct) \div 100
        lots == calculate_lots(risk_amount, sl_dist)
    IN IF sl_dist < min_sl_dist
       THEN Setup("NO_TRADE", "SL_TOO_TIGHT", 0, 0, 0, sl_dist, FALSE)
       ELSE IF ~rr_ok
       THEN Setup("NO_TRADE", "BAD_RR", 0, 0, 0, sl_dist, FALSE)
       ELSE IF multiplier <= 0
       THEN Setup("NO_TRADE", "HTF_CONFLICT", 0, 0, 0, sl_dist, TRUE)
       ELSE IF final_risk_pct <= 0
       THEN Setup("NO_TRADE", "ZERO_RISK", 0, 0, 0, sl_dist, TRUE)
       ELSE IF lots <= 0
       THEN Setup("NO_TRADE", "LOT_CALC_ERROR", 0, risk_amount, 0, sl_dist, TRUE)
       ELSE Setup("TRADE", "NONE", lots, risk_amount, final_risk_pct, sl_dist, TRUE)

(***************************************************************************)
(* news_integration.py: NewsIntegration                                    *)
(***************************************************************************)
high_impact_risk_multiplier == 0
sentiment_confidence_factor == 5
cache_duration_minutes == 10
cache_max_age_minutes == 1440
enable_news_blocking == TRUE
enable_blackouts == TRUE

\* _filter_stale_news: items without a published timestamp or older than
\* the cache ceiling are dropped before the blocker sees them
filter_stale_news(items, t) ==
    SelectSeq(items, LAMBDA it : it.has_origin /\ t - it.origin <= cache_max_age_minutes)

\* refresh_news(force = False): whether the cache is served (no fetch, no
\* blocker update); last_fetch_time is <<>> (None) or <<t>>
CacheServed(lft, t) ==
    /\ lft # <<>>
    /\ ~(t - lft[1] > cache_max_age_minutes)
    /\ t - lft[1] < cache_duration_minutes

\* the blocker and cache state after refresh_news at time t, when the
\* fetcher delivers `fetched`
refresh_news(blocks, seen, lft, fetched, t) ==
    IF CacheServed(lft, t)
    THEN [blocks |-> blocks, seen |-> seen, lft |-> lft]
    ELSE LET u == IF enable_news_blocking
                  THEN update_active_blocks(blocks, seen, filter_stale_news(fetched, t), t)
                  ELSE [blocks |-> blocks, seen |-> seen]
         IN [blocks |-> u.blocks, seen |-> u.seen, lft |-> <<t>>]

\* economic_calendar.get_risk_adjustment results (risk multiplier in hundredths)
Calendar(in_blackout, risk_multiplier, upcoming) ==
    [in_blackout |-> in_blackout, risk_multiplier |-> risk_multiplier,
     upcoming |-> upcoming]

\* get_news_assessment after the refresh: trading permission, reason, risk
\* multiplier (hundredths) and the block status it carries
get_news_assessment(blocks, t, cal, has_high_impact) ==
    LET st == IF enable_news_blocking THEN get_block_status(blocks, t) ELSE NoStatus
    IN IF enable_news_blocking /\ st.is_blocked /\ st.classification = "LIVE_EVENT"
       THEN [can_trade |-> FALSE, reason |-> "HIGH_IMPACT_NEWS",
             risk_multiplier |-> 0, news_block_status |-> st]
       ELSE LET blackout == enable_blackouts /\ cal.in_blackout
                legacy == ~blackout /\ has_high_impact
                upcoming == ~blackout /\ ~legacy /\ cal.upcoming
                m1 == IF blackout THEN 0
                      ELSE IF legacy
                           THEN (IF high_impact_risk_multiplier = 0 THEN 0
                                 ELSE Min(100, high_impact_risk_multiplier))
                      ELSE IF upcoming THEN Min(100, cal.risk_multiplier)
                      ELSE 100
                can == ~blackout
                       /\ ~(legacy /\ high_impact_risk_multiplier = 0)
                       /\ ~(upcoming /\ m1 <= 0)
                reason == IF blackout THEN "CALENDAR_BLACKOUT: detail"
                          ELSE IF legacy
                               THEN (IF high_impact_risk_multiplier = 0
                                     THEN "HIGH_IMPACT_NEWS: headline"
                                     ELSE "HIGH_IMPACT_NEWS_CAUTION")
                          ELSE IF upcoming /\ m1 <= 0 THEN "EVENT_IMMINENT: detail"
                          ELSE "NONE"
            IN [can_trade |-> can, reason |-> reason,
                risk_multiplier |-> Min(m1, cal.risk_multiplier),
                news_block_status |-> st]

\* round(x / unit) for x >= 0
RoundDiv(x, unit) == (x + unit \div 2) \div unit

\* adjust_confidence (confidence and sentiment in millionths)
adjust_confidence(base_confidence, direction, sentiment_score) ==
    IF sentiment_confidence_factor = 0 THEN base_confidence
    ELSE LET alignment == IF direction = "UP" THEN sentiment_score ELSE -sentiment_score
             adjusted == base_confidence + (alignment * sentiment_confidence_factor) \div 100
             bounded == Max(0, Min(1000000, adjusted))
         IN RoundDiv(bounded, 100) * 100

\* check_volatility_confirmation: TRUE iff the ATR check passes
check_volatility_confirmation(snap) ==
    IF snap.rows < 50 THEN FALSE
    ELSE ~(snap.atr_avg > 0 /\ snap.atr * 10 > 15 * snap.atr_avg)

(***************************************************************************)
(* live_predictor.py: LivePredictor                                        *)
(***************************************************************************)
TFs == { TF_HIERARCHY[i] : i \in 1..NumTF }

HTF_PARENT_MAP(tf) ==
    CASE tf = "15m" -> "30m"
      [] tf = "30m" -> "1h"
      [] tf = "1h" -> "4h"
      [] tf = "4h" -> "1d"
      [] OTHER -> "NONE"

\* What a results dictionary holds for a timeframe, as far as later
\* timeframes read it: present = FALSE when the key is missing; an error
\* result has no direction and no regime ("NONE").
NoResult == [present |-> FALSE, decision |-> "NONE", direction |-> "NONE",
             regime |-> "NONE"]

EmptyResults == [tf \in TFs |-> NoResult]

HasResult(htf_results, tf) == tf \in DOMAIN htf_results /\ htf_results[tf].present

\* _check_htf_alignment comparing directions only, blind to the parent's decision
check_htf_alignment_direction_only(current_tf, current_direction, htf_results) ==
    LET parent_tf == HTF_PARENT_MAP(current_tf)
    IN IF parent_tf = "NONE" THEN "ALIGNED"
       ELSE IF ~HasResult(htf_results, parent_tf) THEN "ALIGNED"
       ELSE LET parent == htf_results[parent_tf]
            IN IF parent.direction # "NONE" /\ parent.direction # current_direction
               THEN (IF parent.regime = "STRONG_TREND" THEN "HARD_CONFLICT"
                     ELSE "SOFT_CONFLICT")
               ELSE "ALIGNED"

\* _check_htf_alignment
check_htf_alignment(current_tf, current_direction, htf_results) ==
    LET parent_tf == HTF_PARENT_MAP(current_tf)
    IN IF parent_tf = "NONE" THEN "ALIGNED"
       ELSE IF ~HasResult(htf_results, parent_tf) THEN "ALIGNED"
       ELSE LET parent == htf_results[parent_tf]
                grandparent_tf == HTF_PARENT_MAP(parent_tf)
            IN IF parent.decision = "NO_TRADE" THEN "HARD_CONFLICT"
               ELSE IF parent.direction # "NONE" /\ parent.direction # current_direction
                    THEN (IF parent.regime = "STRONG_TREND" THEN "HARD_CONFLICT"
                          ELSE "SOFT_CONFLICT")
               ELSE IF /\ grandparent_tf # "NONE"
                       /\ HasResult(htf_results, grandparent_tf)
                       /\ htf_results[grandparent_tf].direction # "NONE"
                       /\ htf_results[grandparent_tf].direction # current_direction
                       /\ htf_results[grandparent_tf].regime = "STRONG_TREND"
                    THEN "HARD_CONFLICT"
               ELSE "ALIGNED"

\* calibration_control defaults
safe_drift == 150000
warning_drift == 250000
risk_reduction_multiplier == 50

\* drift bands without the CRITICAL band
drift_level_two_bands(calibration_drift) ==
    IF calibration_drift <= safe_drift THEN "SAFE" ELSE "WARNING"

drift_level_of(calibration_drift) ==
    IF calibration_drift <= safe_drift THEN "SAFE"
    ELSE IF calibration_drift <= warning_drift THEN "WARNING"
    ELSE "CRITICAL"

\* drift multipliers with a WARNING sized at full risk
drift_multiplier_warning_full(level) ==
    CASE level = "CRITICAL" -> 0
      [] OTHER -> 100

drift_multiplier_of(level) ==
    CASE level = "SAFE" -> 100
      [] level = "WARNING" -> risk_reduction_multiplier
      [] OTHER -> 0

\* SOFT_CONFLICT sized at full risk
htf_risk_multiplier_soft_full(htf_status) ==
    CASE htf_status = "HARD_CONFLICT" -> 0
      [] OTHER -> 100

htf_risk_multiplier_of(htf_status) ==
    CASE htf_status = "SOFT_CONFLICT" -> 50
      [] htf_status = "HARD_CONFLICT" -> 0
      [] OTHER -> 100

\* the HTF override left out: the rule filter's verdict goes on unchanged
htf_override_left_out(htf_status, decision, rejection_reason) ==
    <<decision, rejection_reason>>

\* "if htf_status == 'HARD_CONFLICT' and decision == 'TRADE'": <<decision, reason>>
htf_override(htf_status, decision, rejection_reason) ==
    IF htf_status = "HARD_CONFLICT" /\ decision = "TRADE"
    THEN <<"NO_TRADE", "HTF_CONFLICT">>
    ELSE <<decision, rejection_reason>>

\* whether the news stage sets NO_TRADE / HIGH_IMPACT_NEWS when the
\* assessment is polled, ignoring an active cooldown
news_blocks_trade_on_volatility_only(can_trade, is_blocked, regime_state, vol_ok) ==
    /\ ~can_trade
    /\ (regime_state = "HIGH_VOLATILITY_NO_TRADE" \/ ~vol_ok)

\* whether the news stage sets NO_TRADE / HIGH_IMPACT_NEWS when the
\* assessment is polled: an active cooldown, or a failed resume check
news_blocks_trade(can_trade, is_blocked, regime_state, vol_ok) ==
    /\ ~can_trade
    /\ \/ is_blocked
       \/ regime_state = "HIGH_VOLATILITY_NO_TRADE"
       \/ ~vol_ok

\* the smallest of the three multipliers instead of their product
combined_risk_multiplier_min(htf_mult, news_mult, drift_mult) ==
    Min(htf_mult, Min(news_mult, drift_mult)) * 100

\* the product handed to the risk manager, in ten-thousandths
combined_risk_multiplier_of(htf_mult, news_mult, drift_mult) ==
    (htf_mult * news_mult * drift_mult) \div 100

\* the sizer's verdict taken as the final decision
risk_override_follows_sizer(setup, decision, rejection_reason) ==
    IF setup.decision = "NO_TRADE" /\ rejection_reason # "HIGH_IMPACT_NEWS"
    THEN <<"NO_TRADE", IF decision = "TRADE" THEN setup.reason ELSE rejection_reason>>
    ELSE IF setup.decision = "TRADE" THEN <<"TRADE", "NONE">>
    ELSE <<decision, rejection_reason>>

\* "If risk manager rejects, override decision (unless already blocked by
\* news)": <<decision, reason>>
risk_override(setup, decision, rejection_reason) ==
    IF /\ setup.decision = "NO_TRADE"
       /\ rejection_reason # "HIGH_IMPACT_NEWS"
       /\ decision = "TRADE"
    THEN <<"NO_TRADE", setup.reason>>
    ELSE <<decision, rejection_reason>>

NoSetup == Setup("NONE", "NONE", 0, 0, 0, 0, FALSE)

NoNews == [polled |-> FALSE, can_trade |-> TRUE, is_blocked |-> FALSE,
           vol_checked |-> FALSE, vol_ok |-> TRUE, cooldown_lapsed |-> FALSE,
           risk_multiplier |-> 100, reason |-> "NONE"]

(***************************************************************************)
(* forward_test.py: the audit log                                          *)
(***************************************************************************)
\* the header written by _init_log
CSV_COLUMNS ==
    << "timestamp", "symbol", "timeframe", "direction", "raw_conf", "calib_conf",
       "calib_drift", "regime", "htf_status", "htf_parent", "decision", "reason",
       "entry", "sl", "tp", "lots", "risk_pct", "risk_amount", "rr_ratio",
       "close_price_at_pred", "news_sentiment", "news_high_impact",
       "news_headlines", "news_event", "news_impact_level",
       "news_cooldown_minutes", "news_block_until" >>

\* the cells of the row log_signal builds, each named by the signal_data
\* key it is read from (the first by the clock, the third by the argument)
log_signal_row ==
    << "timestamp", "symbol", "timeframe", "direction", "raw_confidence",
       "calibrated_confidence", "calibration_drift", "regime", "htf_status",
       "htf_parent", "decision", "reason", "entry", "sl", "tp", "lots",
       "risk_pct", "risk_amount", "rr_ratio", "current_price", "news_sentiment",
       "news_high_impact", "news_headlines", "news_event", "news_impact_level",
       "news_cooldown_minutes", "news_block_until", "news_classification",
       "news_origin_timestamp", "news_fetch_timestamp", "cache_age_minutes" >>

\* the header column a cell read from `key` belongs under
ColumnOf(key) ==
    CASE key = "raw_confidence" -> "raw_conf"
      [] key = "calibrated_confidence" -> "calib_conf"
      [] key = "calibration_drift" -> "calib_drift"
      [] key = "current_price" -> "close_price_at_pred"
      [] OTHER -> key

\* a row has the header's fields, one cell per column, in the header's order
RowMatchesHeader(row) ==
    /\ Len(row) = Len(CSV_COLUMNS)
    /\ \A i \in 1..Len(row) : i <= Len(CSV_COLUMNS) => ColumnOf(row[i]) = CSV_COLUMNS[i]

NoLog == [decision |-> "NONE", reason |-> "NONE", lots |-> 0,
          risk_amount |-> 0, risk_pct |-> 0, row |-> <<>>]

\* The early returns of predict_single_timeframe (model missing, too little
\* data, feature computation failed): no setup, no audit row.
ErrorResult(tf) ==
    [timeframe |-> tf, error |-> TRUE, direction |-> "NONE",
     confidence |-> 0, final_conf |-> 0, raw_conf |-> 0, calib_conf |-> 0,
     calibration_drift |-> 0, calibration_warning |-> FALSE,
     drift_level |-> "NONE", drift_risk_multiplier |-> 100,
     decision |-> "NO_TRADE", rejection_reason |-> "INSUFFICIENT_DATA",
     regime |-> "NONE", htf_status |-> "NONE",
     rules_decision |-> "NONE", rules_reason |-> "NONE",
     stages |-> <<>>,
     news |-> NoNews,
     htf_risk_multiplier |-> 100, combined_risk_multiplier |-> 0,
     has_setup |-> FALSE, setup |-> NoSetup, sizer |-> NoSetup,
     logged |-> FALSE, log |-> NoLog]

\* A local variable: v is computed once and named in F.
Bind(v, F(_)) == CHOOSE r \in { F(x) : x \in {v} } : TRUE

\* predict_single_timeframe from the prediction to the HTF override:
\* regime, direction, calibration, drift band, HTF status, rule filter.
\*   inp = [data_ok, snap, raw_prob_up, calib_prob_up, sentiment]
Signal(tf, htf_results, inp, is_fitted) ==
    LET snap == inp.snap
        regime_state == detect(snap, tf)
        raw_prob_up == inp.raw_prob_up
        direction == IF raw_prob_up > 500000 THEN "UP" ELSE "DOWN"
        calib_prob_up == IF is_fitted THEN inp.calib_prob_up ELSE raw_prob_up
        has_drift_warning == IF is_fitted
                             THEN Abs(calib_prob_up - raw_prob_up) > safe_drift
                             ELSE TRUE
        raw_conf == IF direction = "UP" THEN raw_prob_up ELSE 1000000 - raw_prob_up
        final_conf == IF direction = "UP" THEN calib_prob_up ELSE 1000000 - calib_prob_up
        final_conf_pct == RoundDiv(final_conf, 100)
        calibration_drift == Abs(final_conf - raw_conf)
        htf_status == check_htf_alignment(tf, direction, htf_results)
        rules == check_trade(final_conf_pct, regime_state, snap.atr, min_atr_for(tf))
        s2 == htf_override(htf_status, rules[1], rules[2])
    IN [direction |-> direction, regime |-> regime_state,
        raw_conf |-> raw_conf, final_conf |-> final_conf,
        final_conf_pct |-> final_conf_pct,
        calibration_drift |-> calibration_drift,
        calibration_warning |-> has_drift_warning,
        drift_level |-> drift_level_of(calibration_drift),
        htf_status |-> htf_status,
        d1 |-> rules[1], r1 |-> rules[2], d2 |-> s2[1], r2 |-> s2[2],
        vol_ok |-> check_volatility_confirmation(snap)]

\* predict_single_timeframe from the news stage to the combined risk
\* multiplier; g is the Signal, assessment the news assessment (read only
\* when news is enabled)
NewsStage(g, sentiment, news_on, assessment) ==
    LET not_can == news_on /\ ~assessment.can_trade
        in_cooldown == not_can /\ assessment.news_block_status.is_blocked
        news_block == /\ news_on
                      /\ news_blocks_trade(assessment.can_trade,
                                           assessment.news_block_status.is_blocked,
                                           g.regime, g.vol_ok)
        d3 == IF news_block THEN "NO_TRADE" ELSE g.d2
        r3 == IF news_block THEN "HIGH_IMPACT_NEWS" ELSE g.r2
        news_risk_mult == IF ~news_on THEN 100
                          ELSE IF news_block THEN 0
                          ELSE IF not_can THEN 100
                          ELSE assessment.risk_multiplier
        adjusted == news_on /\ ~not_can /\ g.d2 = "TRADE"
        final_conf == IF adjusted
                      THEN adjust_confidence(g.final_conf, g.direction, sentiment)
                      ELSE g.final_conf
        crit == /\ g.drift_level = "CRITICAL"
                /\ (d3 # "NO_TRADE" \/ r3 # "HIGH_IMPACT_NEWS")
        d4 == IF crit THEN "NO_TRADE" ELSE d3
        r4 == IF crit THEN "CALIBRATION_UNSTABLE" ELSE r3
        drift_risk_multiplier == drift_multiplier_of(g.drift_level)
        htf_risk_multiplier == htf_risk_multiplier_of(g.htf_status)
        news_forced == d4 = "NO_TRADE" /\ r4 = "HIGH_IMPACT_NEWS"
    IN [d3 |-> d3, d4 |-> d4, r4 |-> r4,
        vol_checked |-> not_can /\ ~in_cooldown,
        final_conf |-> final_conf,
        final_conf_pct |-> IF adjusted THEN RoundDiv(final_conf, 100)
                           ELSE g.final_conf_pct,
        drift_risk_multiplier |-> drift_risk_multiplier,
        htf_risk_multiplier |-> htf_risk_multiplier,
        news_risk_mult |-> IF news_forced THEN 0 ELSE news_risk_mult,
        combined |-> IF news_forced THEN 0
                     ELSE combined_risk_multiplier_of(htf_risk_multiplier, news_risk_mult,
                                                      drift_risk_multiplier)]

\* predict_single_timeframe from the sizer's return to the result and the
\* audit row; sizer is what calculate_trade_params returned, prev_status the
\* block status of the previous assessment
Assemble(tf, g, n, sizer, news_on, assessment, prev_status, t) ==
    LET forced == n.d4 = "NO_TRADE"
                  /\ n.r4 \in {"HIGH_IMPACT_NEWS", "CALIBRATION_UNSTABLE"}
        setup == IF forced
                 THEN [sizer EXCEPT !.risk_pct = 0, !.risk_amount = 0, !.lots = 0,
                                    !.decision = "NO_TRADE", !.reason = n.r4]
                 ELSE sizer
        s5 == risk_override(setup, n.d4, n.r4)
        drift_rejection_reason == CASE g.drift_level = "WARNING" -> "CALIBRATION_WARNING"
                                    [] g.drift_level = "CRITICAL" -> "CALIBRATION_UNSTABLE"
                                    [] OTHER -> "NONE"
        log_reason == IF g.drift_level = "WARNING" /\ s5[1] = "TRADE" /\ s5[2] = "NONE"
                      THEN "CALIBRATION_WARNING"
                      ELSE IF drift_rejection_reason # "NONE" THEN drift_rejection_reason
                      ELSE s5[2]
    IN [timeframe |-> tf, error |-> FALSE, direction |-> g.direction,
        confidence |-> n.final_conf_pct, final_conf |-> n.final_conf,
        raw_conf |-> g.raw_conf, calib_conf |-> g.final_conf,
        calibration_drift |-> g.calibration_drift,
        calibration_warning |-> g.calibration_warning,
        drift_level |-> g.drift_level,
        drift_risk_multiplier |-> n.drift_risk_multiplier,
        decision |-> s5[1], rejection_reason |-> s5[2],
        regime |-> g.regime, htf_status |-> g.htf_status,
        rules_decision |-> g.d1, rules_reason |-> g.r1,
        stages |-> <<g.d1, g.d2, n.d3, n.d4, s5[1]>>,
        news |-> [polled |-> news_on,
                  can_trade |-> IF news_on THEN assessment.can_trade ELSE TRUE,
                  is_blocked |-> news_on /\ assessment.news_block_status.is_blocked,
                  vol_checked |-> n.vol_checked,
                  vol_ok |-> g.vol_ok,
                  cooldown_lapsed |-> /\ news_on
                                      /\ prev_status.is_blocked
                                      /\ t >= prev_status.block_until,
                  risk_multiplier |-> n.news_risk_mult,
                  reason |-> IF news_on THEN assessment.reason ELSE "NONE"],
        htf_risk_multiplier |-> n.htf_risk_multiplier,
        combined_risk_multiplier |-> n.combined,
        has_setup |-> TRUE, setup |-> setup, sizer |-> sizer,
        logged |-> TRUE,
        log |-> [decision |-> s5[1], reason |-> log_reason, lots |-> setup.lots,
                 risk_amount |-> setup.risk_amount, risk_pct |-> setup.risk_pct,
                 row |-> log_signal_row]]

\* The body of predict_single_timeframe after the data checks.
GateResult(tf, htf_results, inp, is_fitted, news_on, assessment, prev_status, t) ==
    Bind(Signal(tf, htf_results, inp, is_fitted), LAMBDA g :
      Bind(NewsStage(g, inp.sentiment, news_on, assessment), LAMBDA n :
        Bind(calculate_trade_params(inp.snap, g.direction, n.final_conf,
                                    n.combined, g.regime), LAMBDA sizer :
          Assemble(tf, g, n, sizer, news_on, assessment, prev_status, t))))

(***************************************************************************)
(* Inputs of a timeframe evaluation.                                       *)
(***************************************************************************)
Snapshot(rows, close, high, low, atr, atr_avg, adx, bbw_pct) ==
    [rows |-> rows, close |-> close, high |-> high, low |-> low, atr |-> atr,
     atr_avg |-> atr_avg, adx |-> adx, bbw_pct |-> bbw_pct]

S_TREND == Snapshot(60, 200000, 201500, 198500, 1000, 1000, 50, 50)
S_WEAK == Snapshot(60, 200000, 201500, 198500, 1000, 1000, 29, 50)
S_SQUEEZE == Snapshot(60, 200000, 201500, 198500, 1000, 1000, 10, 5)
S_FLAT == Snapshot(60, 200000, 201500, 198500, 1000, 1000, 10, 50)
S_SPIKE == Snapshot(60, 200000, 201500, 198500, 4000, 1000, 50, 50)
S_HOT == Snapshot(60, 200000, 201500, 198500, 1700, 1000, 50, 50)
S_TIGHT == Snapshot(60, 200000, 200000, 200000, 20, 20, 50, 50)
S_WIDE == Snapshot(60, 200000, 203000, 197000, 6000, 6000, 50, 50)

Snapshots == {S_TREND, S_WEAK, S_SQUEEZE, S_FLAT, S_SPIKE, S_HOT, S_TIGHT, S_WIDE}

\* predict_ok: model.predict_proba and calibrator.calibrate return; when
\* FALSE the call raises
Input(snap, raw_prob_up, calib_prob_up, sentiment) ==
    [data_ok |-> TRUE, predict_ok |-> TRUE, snap |-> snap,
     raw_prob_up |-> raw_prob_up,
     calib_prob_up |-> calib_prob_up, sentiment |-> sentiment]

\* <<raw probability of UP, calibrated probability of UP>> fed with a
\* trending snapshot: drift 0.01, 0.20, 0.30, confidence 0.50, a DOWN call,
\* confidence 0.56
ProbPairs == { <<700000, 690000>>, <<800000, 600000>>, <<900000, 600000>>,
               <<700000, 500000>>, <<300000, 310000>>, <<560000, 560000>> }

Inputs ==
    { Input(S_TREND, pp[1], pp[2], 0) : pp \in ProbPairs }
    \cup { Input(sn, 700000, 690000, 0) : sn \in Snapshots }
    \cup { Input(S_WEAK, 300000, 310000, 0),
           Input(S_WIDE, 800000, 600000, 0),
           Input(S_TREND, 560000, 560000, -1000000),
           Input(S_TREND, 550000, 550000, 0),
           [Input(S_TREND, 700000, 690000, 0) EXCEPT !.data_ok = FALSE],
           [Input(S_TREND, 700000, 690000, 0) EXCEPT !.predict_ok = FALSE] }

\* calendar and legacy high-impact outcomes polled by one assessment
Quiet == [cal |-> Calendar(FALSE, 100, FALSE), has_high_impact |-> FALSE]

NewsInputs ==
    { Quiet,
      [cal |-> Calendar(TRUE, 0, TRUE), has_high_impact |-> FALSE],
      [cal |-> Calendar(FALSE, 100, FALSE), has_high_impact |-> TRUE],
      [cal |-> Calendar(FALSE, 0, TRUE), has_high_impact |-> FALSE],
      [cal |-> Calendar(FALSE, 50, TRUE), has_high_impact |-> FALSE] }

\* the calendar outcomes are varied against three market inputs; a
\* blackout also meets CRITICAL drift on a market above 1.5x its ATR average
Scenarios ==
    { <<inp, Quiet>> : inp \in Inputs }
    \cup { <<inp, nin>> : inp \in { Input(S_TREND, 700000, 690000, 0),
                                     Input(S_TREND, 800000, 600000, 0),
                                     Input(S_HOT, 700000, 690000, 0) },
                          nin \in NewsInputs }
    \cup { << Input(S_HOT, 900000, 600000, 0),
              [cal |-> Calendar(TRUE, 0, TRUE), has_high_impact |-> FALSE] >> }

\* the market inputs of the passes and single-timeframe calls of SpecCandle:
\* a strong trend called UP, one called DOWN, a weak trend called DOWN, a
\* flat market, too little data, a failing predict_proba
CandleScenarios ==
    { <<inp, Quiet>> : inp \in
        { Input(S_TREND, 700000, 690000, 0),
          Input(S_TREND, 300000, 310000, 0),
          Input(S_WEAK, 300000, 310000, 0),
          Input(S_FLAT, 700000, 690000, 0),
          [Input(S_TREND, 700000, 690000, 0) EXCEPT !.data_ok = FALSE],
          [Input(S_TREND, 700000, 690000, 0) EXCEPT !.predict_ok = FALSE] } }

\* the fetcher delivers nothing in SpecCandle
CandleFetches == { <<>> }

\* what the fetcher may deliver to a refresh inside a decision pass
FetchChoices(t) ==
    { <<>>, << Item(H_CPI, TRUE, t - 50, "absent", t) >>,
      << Item(H_ANALYST, TRUE, t - 15, "ok", t) >> }

Summary(r) == [present |-> TRUE, decision |-> r.decision,
               direction |-> r.direction, regime |-> r.regime]

\* predict_single_timeframe(tf, htf_results): the returned result and the
\* state of the news components after it; raised = TRUE when the call
\* leaves through an exception instead of returning (predict_proba and
\* calibrate are called outside any try block)
predict_single_timeframe(tf, htf_results, inp, nin, fetched) ==
    LET keep == [result |-> ErrorResult(tf), raised |-> FALSE,
                 blocks |-> active_blocks,
                 seen |-> seen_events, lft |-> last_fetch_time,
                 status |-> last_block_status]
    IN IF tf \notin models \/ ~inp.data_ok THEN keep
       ELSE IF ~inp.predict_ok THEN [keep EXCEPT !.raised = TRUE]
       ELSE IF ~news_enabled
       THEN [keep EXCEPT !.result =
                GateResult(tf, htf_results, inp, tf \in fitted, FALSE,
                           [can_trade |-> TRUE, reason |-> "NONE",
                            risk_multiplier |-> 100, news_block_status |-> NoStatus],
                           last_block_status, now)]
       ELSE Bind(refresh_news(active_blocks, seen_events, last_fetch_time,
                              fetched, now), LAMBDA rf :
              Bind(get_news_assessment(rf.blocks, now, nin.cal,
                                       nin.has_high_impact), LAMBDA assessment :
                [result |-> GateResult(tf, htf_results, inp, tf \in fitted, TRUE,
                                       assessment, last_block_status, now),
                 raised |-> FALSE,
                 blocks |-> rf.blocks, seen |-> rf.seen, lft |-> rf.lft,
                 status |-> assessment.news_block_status]))

(***************************************************************************)
(* Actions                                                                 *)
(***************************************************************************)
AllTF == { TF_HIERARCHY[i] : i \in 1..Len(TF_HIERARCHY) }

NoAuditRows == [tf \in TFs |-> 0]

\* predict_all_timeframes starts a pass with an empty results dictionary;
\* no timeframe of the pass has returned yet
StartCycle ==
    /\ pos = 0
    /\ pos' = 1
    /\ results' = EmptyResults
    /\ last' = ErrorResult("NONE")
    /\ raised' = "NONE"
    /\ audit_rows' = NoAuditRows
    /\ htf_source' = "NONE"
    /\ UNCHANGED <<now, active_blocks, seen_events, last_block_status,
                   last_fetch_time, news_enabled, models, fitted, sched, call,
                   decision_history,
                   state_file>>

\* one iteration of the loop of predict_all_timeframes; an exception of
\* predict_single_timeframe leaves the loop and the method (no Decision is
\* returned, the results dictionary is not stored)
PassStep(scenarios, fetches) ==
    /\ pos \in 1..NumTF
    /\ \E sc \in scenarios, fetched \in fetches :
         \E out \in { predict_single_timeframe(TF_HIERARCHY[pos], results,
                                                sc[1], sc[2], fetched) } :
            /\ Len(out.blocks) <= MaxBlocks
            /\ active_blocks' = out.blocks
            /\ seen_events' = out.seen
            /\ last_fetch_time' = out.lft
            /\ last_block_status' = out.status
            /\ IF out.raised
               THEN /\ last' = ErrorResult("NONE")
                    /\ raised' = "predict_all_timeframes"
                    /\ pos' = 0
                    /\ UNCHANGED <<results, audit_rows>>
               ELSE /\ last' = out.result
                    /\ raised' = "NONE"
                    /\ results' = [results EXCEPT ![TF_HIERARCHY[pos]] =
                                       Summary(out.result)]
                    /\ audit_rows' = [audit_rows EXCEPT ![TF_HIERARCHY[pos]] =
                                         @ + (IF out.result.logged THEN 1 ELSE 0)]
                    /\ pos' = IF pos = NumTF THEN 0 ELSE pos + 1
    /\ htf_source' = "PASS"
    /\ UNCHANGED <<now, news_enabled, models, fitted, sched, call,
                   decision_history,
                   state_file>>

PredictTF == PassStep(Scenarios, FetchChoices(now))

\* predict_if_new_candle(timeframe) when a new candle has arrived: one call
\* of predict_single_timeframe with htf_results = self.last_predictions, the
\* dictionary the last completed pass stored (results at pos = 0; empty
\* before the first pass).  The returned result is not stored.  The call
\* is followed while last_predictions is the dictionary held in results,
\* that is, not after a pass that ended in an exception.
PredictIfNewCandle ==
    /\ pos = 0
    /\ raised # "predict_all_timeframes"
    /\ \E tf \in TFs, sc \in CandleScenarios, fetched \in CandleFetches :
         \E out \in { predict_single_timeframe(tf, results, sc[1], sc[2], fetched) } :
            /\ Len(out.blocks) <= MaxBlocks
            /\ active_blocks' = out.blocks
            /\ seen_events' = out.seen
            /\ last_fetch_time' = out.lft
            /\ last_block_status' = out.status
            /\ last' = IF out.raised THEN ErrorResult("NONE") ELSE out.result
            /\ raised' = IF out.raised THEN "predict_if_new_candle" ELSE "NONE"
            /\ audit_rows' = [t \in TFs |->
                                IF t = tf /\ ~out.raised /\ out.result.logged
                                THEN 1 ELSE 0]
    /\ htf_source' = "LAST_PREDICTIONS"
    /\ UNCHANGED <<now, news_enabled, models, fitted, results, pos, sched, call,
                   decision_history,
                   state_file>>

\* the wall clock advances between passes
CycleTick ==
    /\ pos = 0
    /\ \E d \in TickSteps : now + d <= MaxCycleNow /\ now' = now + d
    /\ UNCHANGED <<active_blocks, seen_events, last_block_status, last_fetch_time,
                   news_enabled, models, fitted, results, pos, last,
                   raised, audit_rows, htf_source, sched, call,
                   decision_history,
                   state_file>>

\* scheduler.py: a PredictionScheduler on which start has not been called;
\* a thread is "off" (not created, or returned from _scheduler_loop), at the
\* head of the loop, or at a step of the pass it runs
NoThread == [pc |-> "off", new_blocks |-> <<>>, is_blocked |-> FALSE,
             interleaved |-> FALSE]

NoScheduler == [stop_event |-> FALSE, running |-> FALSE,
                threads |-> [t \in 1..MaxThreads |-> NoThread]]

\* no function has been called yet
NoCall == [op |-> "NONE"]

\* news_blocker_state.json does not exist
NoFile == [exists |-> FALSE, active_blocks |-> <<>>]

Configs ==
    { [news_enabled |-> TRUE, models |-> AllTF, fitted |-> AllTF],
      [news_enabled |-> FALSE, models |-> AllTF \ {"4h"}, fitted |-> AllTF \ {"1d"}] }

InitBlocker ==
    /\ now = 0
    /\ active_blocks = <<>>
    /\ seen_events = {}
    /\ last_block_status = NoStatus
    /\ last_fetch_time = <<>>

Init ==
    /\ InitBlocker
    /\ \E c \in Configs :
         /\ news_enabled = c.news_enabled
         /\ models = c.models
         /\ fitted = c.fitted
    /\ results = EmptyResults
    /\ pos = 0
    /\ last = ErrorResult("NONE")
    /\ raised = "NONE"
    /\ audit_rows = NoAuditRows
    /\ htf_source = "NONE"
    /\ sched = NoScheduler
    /\ call = NoCall
    /\ decision_history = <<>>
    /\ state_file = NoFile

Next == StartCycle \/ PredictTF \/ CycleTick

Spec == Init /\ [][Next]_vars

(***************************************************************************)
(* The predictor driven by passes and by predict_if_new_candle between     *)
(* passes.                                                                 *)
(***************************************************************************)
PredictTFCandle == PassStep(CandleScenarios, CandleFetches)

NextCandle == StartCycle \/ PredictTFCandle \/ PredictIfNewCandle \/ CycleTick

SpecCandle == Init /\ [][NextCandle]_vars

(***************************************************************************)
(* The blocker on its own: update_active_blocks and get_block_status       *)
(* called at arbitrary times with arbitrary item lists.                    *)
(***************************************************************************)
UpdateActiveBlocks ==
    /\ \E items \in ItemLists(now) :
         \E u \in { update_active_blocks(active_blocks, seen_events, items, now) } :
            /\ Len(u.blocks) <= MaxBlocks
            /\ active_blocks' = u.blocks
            /\ seen_events' = u.seen
    /\ UNCHANGED <<now, last_block_status, last_fetch_time, news_enabled, models,
                   fitted, results, pos, last, raised, audit_rows, htf_source,
                   sched, call,
                   decision_history,
                   state_file>>

GetBlockStatus ==
    /\ last_block_status' = get_block_status(active_blocks, now)
    /\ UNCHANGED <<now, active_blocks, seen_events, last_fetch_time, news_enabled,
                   models, fitted, results, pos, last, raised, audit_rows,
                   htf_source, sched, call,
                   decision_history,
                   state_file>>

Tick ==
    /\ \E d \in TickSteps : now + d <= MaxNow /\ now' = now + d
    /\ UNCHANGED <<active_blocks, seen_events, last_block_status, last_fetch_time,
                   news_enabled, models, fitted, results, pos, last,
                   raised, audit_rows, htf_source, sched, call,
                   decision_history,
                   state_file>>

InitNews ==
    /\ InitBlocker
    /\ news_enabled = TRUE
    /\ models = AllTF
    /\ fitted = AllTF
    /\ results = EmptyResults
    /\ pos = 0
    /\ last = ErrorResult("NONE")
    /\ raised = "NONE"
    /\ audit_rows = NoAuditRows
    /\ htf_source = "NONE"
    /\ sched = NoScheduler
    /\ call = NoCall
    /\ decision_history = <<>>
    /\ state_file = NoFile

NextNews == UpdateActiveBlocks \/ GetBlockStatus \/ Tick

SpecNews == InitNews /\ [][NextNews]_vars

(***************************************************************************)
(* scheduler.py: PredictionScheduler.  Every thread started runs            *)
(* _scheduler_loop on the one predictor, whose news integration and         *)
(* blocker are the module singletons; no lock guards them.  The decision    *)
(* pass of a thread is followed through its news steps: refresh_news (cache *)
(* check and fetch), update_active_blocks (the pruning assignment and the   *)
(* detection, then the loop that appends), the block-status read, the       *)
(* decision.                                                                *)
(***************************************************************************)
PassSteps == {"refresh", "update", "append", "read", "decide"}

ThreadsAt(pcs) == { t \in 1..MaxThreads : sched.threads[t].pc \in pcs }

\* start(blocking = False): clears the stop event and starts a new thread
\* on _scheduler_loop, whether or not one is running already
StartBackground ==
    /\ \E t \in ThreadsAt({"off"}) :
          sched' = [sched EXCEPT !.stop_event = FALSE, !.running = TRUE,
                                 !.threads[t] = [NoThread EXCEPT !.pc = "loop"]]
    /\ UNCHANGED <<now, active_blocks, seen_events, last_block_status,
                   last_fetch_time, news_enabled, models, fitted, results, pos,
                   last, raised, audit_rows, htf_source, call,
                   decision_history,
                   state_file>>

\* stop(): sets the stop event and joins with a timeout; a thread in the
\* middle of a pass is still alive when stop returns
Stop ==
    /\ sched.running
    /\ sched' = [sched EXCEPT !.stop_event = TRUE, !.running = FALSE]
    /\ UNCHANGED <<now, active_blocks, seen_events, last_block_status,
                   last_fetch_time, news_enabled, models, fitted, results, pos,
                   last, raised, audit_rows, htf_source, call,
                   decision_history,
                   state_file>>

\* the head of the while loop of _scheduler_loop: leave when the stop event
\* is set, otherwise run_prediction_cycle starts a pass
LoopHead(t) ==
    /\ sched.threads[t].pc = "loop"
    /\ sched' = [sched EXCEPT !.threads[t] =
                    IF sched.stop_event THEN NoThread
                    ELSE [NoThread EXCEPT !.pc = "refresh"]]
    /\ UNCHANGED <<now, active_blocks, seen_events, last_block_status,
                   last_fetch_time, news_enabled, models, fitted, results, pos,
                   last, raised, audit_rows, htf_source, call,
                   decision_history,
                   state_file>>

\* refresh_news up to the fetch: the cache is served, or the news is fetched
RefreshStep(t) ==
    /\ sched.threads[t].pc = "refresh"
    /\ sched' = [sched EXCEPT !.threads[t].pc =
                    IF CacheServed(last_fetch_time, now) THEN "read" ELSE "update"]
    /\ UNCHANGED <<now, active_blocks, seen_events, last_block_status,
                   last_fetch_time, news_enabled, models, fitted, results, pos,
                   last, raised, audit_rows, htf_source, call,
                   decision_history,
                   state_file>>

\* update_active_blocks up to the appending loop: the pruned list is
\* assigned, detect_high_impact_news fills the dedup table and returns the
\* new blocks
UpdateStep(t) ==
    /\ sched.threads[t].pc = "update"
    /\ \E items \in FetchChoices(now) :
         \E d \in { detect_high_impact_news(filter_stale_news(items, now), now,
                                             seen_events) } :
            /\ active_blocks' = PruneBlocks(active_blocks, now)
            /\ seen_events' = d.seen
            /\ sched' = [sched EXCEPT !.threads[t].pc = "append",
                                      !.threads[t].new_blocks = d.blocks]
    /\ UNCHANGED <<now, last_block_status, last_fetch_time, news_enabled, models,
                   fitted, results, pos, last, raised, audit_rows, htf_source, call,
                   decision_history,
                   state_file>>

\* the appending loop of update_active_blocks, then refresh_news stores
\* _last_fetch_time = now
AppendStep(t) ==
    /\ sched.threads[t].pc = "append"
    /\ Len(AddNewBlocks(active_blocks, sched.threads[t].new_blocks)) <= MaxBlocks
    /\ active_blocks' = AddNewBlocks(active_blocks, sched.threads[t].new_blocks)
    /\ last_fetch_time' = <<now>>
    /\ sched' = [sched EXCEPT !.threads[t].pc = "read",
                              !.threads[t].new_blocks = <<>>]
    /\ UNCHANGED <<now, seen_events, last_block_status, news_enabled, models,
                   fitted, results, pos, last, raised, audit_rows, htf_source, call,
                   decision_history,
                   state_file>>

\* get_news_assessment reads get_block_status; interleaved records that
\* another thread was inside update_active_blocks at that moment
ReadStep(t) ==
    /\ sched.threads[t].pc = "read"
    /\ last_block_status' = get_block_status(active_blocks, now)
    /\ sched' = [sched EXCEPT
                    !.threads[t].pc = "decide",
                    !.threads[t].is_blocked =
                        get_block_status(active_blocks, now).is_blocked,
                    !.threads[t].interleaved = ThreadsAt({"append"}) \ {t} # {}]
    /\ UNCHANGED <<now, active_blocks, seen_events, last_fetch_time, news_enabled,
                   models, fitted, results, pos, last, raised, audit_rows,
                   htf_source, call,
                   decision_history,
                   state_file>>

\* the Decision is taken on the status read; the pass ends and the thread
\* waits on the stop event for the next check
DecideStep(t) ==
    /\ sched.threads[t].pc = "decide"
    /\ sched' = [sched EXCEPT !.threads[t] = [NoThread EXCEPT !.pc = "loop"]]
    /\ UNCHANGED <<now, active_blocks, seen_events, last_block_status,
                   last_fetch_time, news_enabled, models, fitted, results, pos,
                   last, raised, audit_rows, htf_source, call,
                   decision_history,
                   state_file>>

LoopHeads == \E t \in 1..MaxThreads : LoopHead(t)
RefreshSteps == \E t \in 1..MaxThreads : RefreshStep(t)
UpdateSteps == \E t \in 1..MaxThreads : UpdateStep(t)
AppendSteps == \E t \in 1..MaxThreads : AppendStep(t)
ReadSteps == \E t \in 1..MaxThreads : ReadStep(t)
DecideSteps == \E t \in 1..MaxThreads : DecideStep(t)

NextSched ==
    \/ StartBackground \/ Stop \/ LoopHeads \/ RefreshSteps \/ UpdateSteps
    \/ AppendSteps \/ ReadSteps \/ DecideSteps \/ CycleTick

SpecSched == InitNews /\ [][NextSched]_vars

(***************************************************************************)
(* confidence_gate.py and trade_decision_engine.py.  The three layers are  *)
(* given by what they return: d1 = [bias, confidence, drift], h4h1 =       *)
(* [confirmation, confidence, drift], entry = [entry_signal, confidence]   *)
(* (confidences and drifts in hundredths; drift is |raw_probability -      *)
(* calibrated_probability|, for h4h1 the larger of its two results').      *)
(***************************************************************************)
d1_min_confidence == 55
h4h1_min_confidence == 55
entry_min_confidence == 60
max_calibration_drift == 15
block_on_drift == TRUE
d1_permission_confidence == 50

check_d1_gate(d1) ==
    IF block_on_drift /\ d1.drift > max_calibration_drift THEN FALSE
    ELSE IF d1.confidence < d1_min_confidence THEN FALSE
    ELSE d1.bias # "NEUTRAL"

check_h4h1_gate(h4h1) ==
    IF h4h1.drift > max_calibration_drift THEN FALSE
    ELSE IF h4h1.confirmation # "CONFIRM" THEN FALSE
    ELSE ~(h4h1.confidence < h4h1_min_confidence)

check_entry_gate(entry) ==
    IF entry.entry_signal = "NONE" THEN FALSE
    ELSE ~(entry.confidence < entry_min_confidence)

\* check_all_gates: trade_allowed and the gate that blocked
check_all_gates(d1, h4h1, entry) ==
    IF ~check_d1_gate(d1)
    THEN [trade_allowed |-> FALSE, block_reason |-> "D1 Gate"]
    ELSE IF ~check_h4h1_gate(h4h1)
    THEN [trade_allowed |-> FALSE, block_reason |-> "H4/H1 Gate"]
    ELSE IF ~check_entry_gate(entry)
    THEN [trade_allowed |-> FALSE, block_reason |-> "Entry Gate"]
    ELSE [trade_allowed |-> TRUE, block_reason |-> "None"]

\* _create_no_trade_decision; direction None is written "None"
create_no_trade_decision(reason) ==
    [decision |-> "NO_TRADE", direction |-> "None", confidence |-> 0,
     reason |-> reason]

\* make_decision that does not consult the confidence gate
make_decision_without_gate(d1, h4h1, entry, raises) ==
    IF raises = "d1" THEN create_no_trade_decision("Error in decision engine")
    ELSE IF d1.bias = "NEUTRAL" \/ d1.confidence < d1_permission_confidence
    THEN create_no_trade_decision("D1 bias")
    ELSE IF raises = "h4h1" THEN create_no_trade_decision("Error in decision engine")
    ELSE IF h4h1.confirmation # "CONFIRM"
    THEN create_no_trade_decision("H4/H1 confirmation")
    ELSE IF raises = "entry" THEN create_no_trade_decision("Error in decision engine")
    ELSE IF entry.entry_signal = "NONE"
    THEN create_no_trade_decision("No entry signal detected")
    ELSE [decision |-> "TRADE", direction |-> entry.entry_signal,
          confidence |-> Min(d1.confidence, Min(h4h1.confidence, entry.confidence)),
          reason |-> "All layers passed"]

\* make_decision; raises names the layer call that raises an exception
\* ("NONE" when none does), which the except clause turns into NO_TRADE
make_decision(d1, h4h1, entry, raises) ==
    IF raises = "d1" THEN create_no_trade_decision("Error in decision engine")
    ELSE IF d1.bias = "NEUTRAL" \/ d1.confidence < d1_permission_confidence
    THEN create_no_trade_decision("D1 bias")
    ELSE IF raises = "h4h1" THEN create_no_trade_decision("Error in decision engine")
    ELSE IF h4h1.confirmation # "CONFIRM"
    THEN create_no_trade_decision("H4/H1 confirmation")
    ELSE IF raises = "entry" THEN create_no_trade_decision("Error in decision engine")
    ELSE IF entry.entry_signal = "NONE"
    THEN create_no_trade_decision("No entry signal detected")
    ELSE IF raises = "gate" THEN create_no_trade_decision("Error in decision engine")
    ELSE IF ~check_all_gates(d1, h4h1, entry).trade_allowed
    THEN create_no_trade_decision(check_all_gates(d1, h4h1, entry).block_reason)
    ELSE [decision |-> "TRADE", direction |-> entry.entry_signal,
          confidence |-> Min(d1.confidence, Min(h4h1.confidence, entry.confidence)),
          reason |-> "All layers passed"]

\* a drifted calibration is drawn only where the confidence alone would pass
D1Results ==
    [bias : {"BULLISH", "NEUTRAL"}, confidence : {49, 50, 55}, drift : {0}]
        \cup [bias : {"BULLISH", "NEUTRAL"}, confidence : {55}, drift : {20}]

ConfirmationResults ==
    [confirmation : {"CONFIRM", "REJECT"}, confidence : {54, 55}, drift : {0}]
        \cup [confirmation : {"CONFIRM"}, confidence : {55}, drift : {20}]

EntryResults ==
    [entry_signal : {"LONG", "NONE"}, confidence : {59, 60}]

Raises == {"NONE", "d1", "h4h1", "entry", "gate"}

\* one call of make_decision: the decision is returned and appended to
\* decision_history
MakeDecision ==
    /\ Len(decision_history) < MaxHistory
    /\ \E d1 \in D1Results, h4h1 \in ConfirmationResults, entry \in EntryResults,
          raises \in Raises :
         /\ call' = [op |-> "make_decision",
                     args |-> [d1 |-> d1, h4h1 |-> h4h1, entry |-> entry,
                               raises |-> raises],
                     result |-> make_decision(d1, h4h1, entry, raises)]
         /\ decision_history' =
               Append(decision_history, make_decision(d1, h4h1, entry, raises).decision)
    /\ UNCHANGED <<now, active_blocks, seen_events, last_block_status,
                   last_fetch_time, news_enabled, models, fitted, results, pos,
                   last, raised, audit_rows, htf_source, sched, state_file>>

\* TradeDecisionEngine(): a new engine starts with an empty history
NewEngine ==
    /\ decision_history # <<>>
    /\ decision_history' = <<>>
    /\ call' = NoCall
    /\ UNCHANGED <<now, active_blocks, seen_events, last_block_status,
                   last_fetch_time, news_enabled, models, fitted, results, pos,
                   last, raised, audit_rows, htf_source, sched, state_file>>

NextEngine == MakeDecision \/ NewEngine

SpecEngine == InitNews /\ [][NextEngine]_vars

(***************************************************************************)
(* check_trade called on its own: the arbiter hands it the calibrated      *)
(* confidence final_conf (millionths) as round(final_conf * 100, 2), the   *)
(* regime and the latest ATR; min_atr is the configured floor of the       *)
(* timeframe (0 when thresholds.min_atr has no entry for it).              *)
(***************************************************************************)
Confidences == {0, 5400, 8000, 10000, 10100, 540000, 549900, 550000, 690000, 1000000}

RegimeStates ==
    {"STRONG_TREND", "WEAK_TREND", "RANGE", "HIGH_VOLATILITY_NO_TRADE", "UNKNOWN"}

AtrValues == {0, 500, 1000}

MinAtrValues == {0, 800}

CheckTrade ==
    /\ \E final_conf \in Confidences, regime_state \in RegimeStates,
          current_atr \in AtrValues, min_atr \in MinAtrValues :
         call' = [op |-> "check_trade",
                  args |-> [final_conf |-> final_conf,
                            confidence |-> RoundDiv(final_conf, 100),
                            regime_state |-> regime_state,
                            current_atr |-> current_atr, min_atr |-> min_atr],
                  result |-> check_trade(RoundDiv(final_conf, 100), regime_state,
                                         current_atr, min_atr)]
    /\ UNCHANGED <<now, active_blocks, seen_events, last_block_status,
                   last_fetch_time, news_enabled, models, fitted, results, pos,
                   last, raised, audit_rows, htf_source, sched, decision_history,
                   state_file>>

NextRules == CheckTrade

SpecRules == InitNews /\ [][NextRules]_vars

(***************************************************************************)
(* RegimeDetector.detect called on its own, on frames of 49, 50 and 60     *)
(* rows whose latest ATR is 1.0, 2.1 or 4.0 times the 50-row average.      *)
(***************************************************************************)
RowCounts == {49, 50, 60}

AtrLatest == {1000, 2100, 4000}

AdxValues == {10, 20, 21, 30, 31, 45, 46}

BbwPercentiles == {5, 50}

Detect ==
    /\ \E rows \in RowCounts, atr \in AtrLatest, adx \in AdxValues,
          bbw_pct \in BbwPercentiles, tf \in AllTF :
         call' = [op |-> "detect",
                  args |-> [snap |-> Snapshot(rows, 200000, 201500, 198500, atr,
                                              1000, adx, bbw_pct),
                            timeframe |-> tf],
                  result |-> detect(Snapshot(rows, 200000, 201500, 198500, atr,
                                             1000, adx, bbw_pct), tf)]
    /\ UNCHANGED <<now, active_blocks, seen_events, last_block_status,
                   last_fetch_time, news_enabled, models, fitted, results, pos,
                   last, raised, audit_rows, htf_source, sched, decision_history,
                   state_file>>

NextRegime == Detect

SpecRegime == InitNews /\ [][NextRegime]_vars

(***************************************************************************)
(* calculate_trade_params called on its own.  The frames close at 2000.00; *)
(* their swing is 15.00, nothing or 120.00 away from the close and their   *)
(* ATR is 0.20, 10.00, 60.00 or 80.00; one frame has 4 rows only.          *)
(***************************************************************************)
Swings == {<<201500, 198500>>, <<200000, 200000>>, <<212000, 188000>>}

SizerAtrs == {20, 1000, 6000, 8000}

SizerSnapshots ==
    { Snapshot(60, 200000, hl[1], hl[2], atr, 1000, 50, 50) :
        hl \in Swings, atr \in SizerAtrs }
    \cup { Snapshot(4, 200000, 201500, 198500, 1000, 1000, 50, 50) }

SizerConfidences == {500000, 600000, 800000}

\* combined risk multipliers, in ten-thousandths
SizerMultipliers == {0, 100, 5000, 10000}

SizerRegimes == {"STRONG_TREND", "WEAK_TREND", "RANGE", "HIGH_VOLATILITY_NO_TRADE"}

CalculateTradeParams ==
    /\ \E snap \in SizerSnapshots, direction \in {"UP", "DOWN"},
          confidence \in SizerConfidences, multiplier \in SizerMultipliers,
          regime \in SizerRegimes :
         call' = [op |-> "calculate_trade_params",
                  args |-> [snap |-> snap, direction |-> direction,
                            confidence |-> confidence, multiplier |-> multiplier,
                            regime |-> regime],
                  levels |-> calculate_levels(snap, direction, regime),
                  result |-> calculate_trade_params(snap, direction, confidence,
                                                    multiplier, regime)]
    /\ UNCHANGED <<now, active_blocks, seen_events, last_block_status,
                   last_fetch_time, news_enabled, models, fitted, results, pos,
                   last, raised, audit_rows, htf_source, sched, decision_history,
                   state_file>>

NextSizer == CalculateTradeParams

SpecSizer == InitNews /\ [][NextSizer]_vars

(***************************************************************************)
(* news_blocker.py: save_state, load_state and get_news_blocker.  The      *)
(* state file holds what NewsBlock.to_dict returns for every block; a new  *)
(* process builds its blocker with get_news_blocker, which loads the file  *)
(* if it exists.                                                           *)
(***************************************************************************)
\* the keys of a saved block
to_dict(b) ==
    [news_type |-> b.news_type, origin_timestamp |-> b.origin_timestamp,
     fetch_timestamp |-> b.fetch_timestamp, timestamp |-> b.origin_timestamp,
     source |-> "src", headline |-> b.headline, impact_level |-> "HIGH",
     classification |-> b.classification,
     cooldown_minutes |-> b.cooldown_minutes, block_until |-> b.block_until]

save_state(blocks) ==
    [exists |-> TRUE, active_blocks |-> [i \in DOMAIN blocks |-> to_dict(blocks[i])]]

\* the parameters of NewsBlock.__init__, none of which has a default
NewsBlockParameters ==
    {"news_type", "origin_timestamp", "fetch_timestamp", "source", "headline",
     "impact_level", "classification"}

\* the keyword arguments load_state calls NewsBlock with
LoadStateKeywords == {"news_type", "timestamp", "source", "headline", "impact_level"}

\* load_state: the block list is emptied, then one NewsBlock per saved block
\* is built from the `timestamp` key; a call whose keywords are not the
\* constructor's parameters raises TypeError, which the except clause
\* swallows, leaving the list as it is at that point
load_state(blocks, file) ==
    IF ~file.exists THEN blocks
    ELSE IF file.active_blocks = <<>> THEN <<>>
    ELSE IF LoadStateKeywords # NewsBlockParameters THEN <<>>
    ELSE [i \in DOMAIN file.active_blocks |->
            NewsBlock(file.active_blocks[i].news_type,
                      file.active_blocks[i].timestamp,
                      file.active_blocks[i].timestamp,
                      file.active_blocks[i].headline,
                      "LIVE_EVENT")]

\* what a refresh may fetch between restarts
RestartFetches(t) ==
    { <<>>, << Item(H_FOMC, TRUE, t - 10, "ok", t - 1) >>,
      << Item(H_CPI, TRUE, t - 10, "ok", t - 1) >> }

\* a refresh of the running process
RefreshBlocks ==
    /\ \E items \in RestartFetches(now) :
         \E u \in { update_active_blocks(active_blocks, seen_events, items, now) } :
            /\ Len(u.blocks) <= MaxBlocks
            /\ active_blocks' = u.blocks
            /\ seen_events' = u.seen
    /\ UNCHANGED <<now, last_block_status, last_fetch_time, news_enabled, models,
                   fitted, results, pos, last, raised, audit_rows, htf_source,
                   sched, call, decision_history, state_file>>

\* save_news_state at the end of a decision pass
SaveState ==
    /\ state_file' = save_state(active_blocks)
    /\ UNCHANGED <<now, active_blocks, seen_events, last_block_status,
                   last_fetch_time, news_enabled, models, fitted, results, pos,
                   last, raised, audit_rows, htf_source, sched, call,
                   decision_history>>

\* a new process: get_news_blocker builds a blocker and loads the file; the
\* call records the file it found, the blocks it restored and the time
GetNewsBlocker ==
    /\ active_blocks' = load_state(<<>>, state_file)
    /\ seen_events' = {}
    /\ last_block_status' = NoStatus
    /\ last_fetch_time' = <<>>
    /\ call' = [op |-> "get_news_blocker", file |-> state_file,
                restored |-> load_state(<<>>, state_file), at |-> now]
    /\ UNCHANGED <<now, news_enabled, models, fitted, results, pos, last, raised,
                   audit_rows, htf_source, sched, decision_history, state_file>>

NextRestart == RefreshBlocks \/ SaveState \/ GetNewsBlocker \/ Tick

SpecRestart == InitNews /\ [][NextRestart]_vars

(***************************************************************************)
(* predict.py: one iteration of the loop of main (batch mode), from the    *)
(* prediction to the risk manager's override, set beside                   *)
(* LivePredictor.predict_single_timeframe on the same inputs.              *)
(***************************************************************************)
\* the loop body of main for timeframe tf with results = htf_results; the
\* rule filter, the HTF override, the news check (only for a TRADE, with
\* the assessment's own reason), the product of the HTF and news
\* multipliers (ten-thousandths) and the risk manager's override
main(tf, htf_results, inp, is_fitted, news_on, news_assessment) ==
    LET snap == inp.snap
        regime_state == detect(snap, tf)
        raw_prob_up == inp.raw_prob_up
        direction == IF raw_prob_up > 500000 THEN "UP" ELSE "DOWN"
        calib_prob_up == IF is_fitted THEN inp.calib_prob_up ELSE raw_prob_up
        raw_conf == IF direction = "UP" THEN raw_prob_up ELSE 1000000 - raw_prob_up
        calib_conf == IF direction = "UP" THEN calib_prob_up
                      ELSE 1000000 - calib_prob_up
        htf_status == check_htf_alignment(tf, direction, htf_results)
        rules == check_trade(RoundDiv(calib_conf, 100), regime_state, snap.atr,
                             min_atr_for(tf))
        s8 == htf_override(htf_status, rules[1], rules[2])
        news_block == news_on /\ s8[1] = "TRADE" /\ ~news_assessment.can_trade
        decision == IF news_block THEN "NO_TRADE" ELSE s8[1]
        rejection_reason == IF news_block THEN news_assessment.reason ELSE s8[2]
        final_conf == IF news_on /\ ~news_block /\ s8[1] = "TRADE"
                      THEN adjust_confidence(calib_conf, direction, inp.sentiment)
                      ELSE calib_conf
        news_risk_mult == IF news_on THEN news_assessment.risk_multiplier ELSE 100
        combined_risk_multiplier == htf_risk_multiplier_of(htf_status) * news_risk_mult
        setup == calculate_trade_params(snap, direction, final_conf,
                                        combined_risk_multiplier, regime_state)
        rejected == setup.decision = "NO_TRADE" /\ decision = "TRADE"
    IN [decision |-> IF rejected THEN "NO_TRADE" ELSE decision,
        rejection_reason |-> IF rejected THEN setup.reason ELSE rejection_reason,
        calibration_drift |-> Abs(calib_conf - raw_conf),
        combined_risk_multiplier |-> combined_risk_multiplier,
        lots |-> setup.lots]

\* the timeframes the two modes are compared on
ModeTimeframes == {"1d", "4h", "1h"}

\* what results holds for a parent: nothing, a TRADE called UP in a strong
\* trend, a TRADE called DOWN in a range, a NO_TRADE called UP
ParentResults ==
    { NoResult,
      [present |-> TRUE, decision |-> "TRADE", direction |-> "UP",
       regime |-> "STRONG_TREND"],
      [present |-> TRUE, decision |-> "TRADE", direction |-> "DOWN",
       regime |-> "RANGE"],
      [present |-> TRUE, decision |-> "NO_TRADE", direction |-> "UP",
       regime |-> "STRONG_TREND"] }

\* the results dictionary read by tf: empty for 1d, the result of 1d for 4h,
\* the results of 1d and 4h for 1h
HtfResultsFor(tf) ==
    CASE tf = "1d" -> { EmptyResults }
      [] tf = "4h" -> { [EmptyResults EXCEPT !["1d"] = p] : p \in ParentResults }
      [] OTHER -> { [EmptyResults EXCEPT !["1d"] = g, !["4h"] = p] :
                      g \in ParentResults, p \in ParentResults }

\* market inputs for which both modes reach the prediction
ModeInputs == { inp \in Inputs : inp.data_ok /\ inp.predict_ok }

\* the assessments get_news_assessment can hand to either mode at time t:
\* every calendar outcome without a block, and an FOMC block in cooldown
NewsAssessments(t) ==
    { get_news_assessment(<<>>, t, nin.cal, nin.has_high_impact) :
        nin \in NewsInputs }
    \cup { get_news_assessment(
             << NewsBlock("FOMC_DECISION", t, t, H_FOMC, "LIVE_EVENT") >>,
             t, Quiet.cal, Quiet.has_high_impact) }

\* what either mode reads of the assessment when news integration is off
NoAssessment == [can_trade |-> TRUE, reason |-> "NONE", risk_multiplier |-> 100,
                 news_block_status |-> NoStatus]

\* both modes evaluate one timeframe on the same inputs, once in a
\* behaviour; the live mode holds no block status of an earlier assessment
PredictBothModes ==
    /\ call = NoCall
    /\ \E tf \in ModeTimeframes, inp \in ModeInputs, is_fitted \in BOOLEAN,
          news_on \in BOOLEAN :
         \E htf_results \in HtfResultsFor(tf),
            news_assessment \in (IF news_on THEN NewsAssessments(now)
                                 ELSE { NoAssessment }) :
           \E live \in { GateResult(tf, htf_results, inp, is_fitted, news_on,
                                    news_assessment, NoStatus, now) } :
             call' = [op |-> "predict",
                      args |-> [tf |-> tf, htf_results |-> htf_results,
                                inp |-> inp, is_fitted |-> is_fitted,
                                news_on |-> news_on,
                                news_assessment |-> news_assessment],
                      live |-> [decision |-> live.decision,
                                rejection_reason |-> live.rejection_reason,
                                drift_level |-> live.drift_level,
                                combined_risk_multiplier |->
                                    live.combined_risk_multiplier,
                                lots |-> live.setup.lots],
                      batch |-> main(tf, htf_results, inp, is_fitted, news_on,
                                     news_assessment)]
    /\ UNCHANGED <<now, active_blocks, seen_events, last_block_status,
                   last_fetch_time, news_enabled, models, fitted, results, pos,
                   last, raised, audit_rows, htf_source, sched, decision_history,
                   state_file>>

NextModes == PredictBothModes

SpecModes == InitNews /\ [][NextModes]_vars

(***************************************************************************)
(* Properties of the arbiter (specification Spec).  `last` is the Decision *)
(* most recently returned by predict_single_timeframe.                     *)
(***************************************************************************)
Emitted == last.timeframe # "NONE"

\* the news stage of the arbiter set NO_TRADE / HIGH_IMPACT_NEWS
NewsGateBlocks ==
    /\ last.news.polled
    /\ \/ last.news.is_blocked
       \/ last.news.vol_checked /\ last.regime = "HIGH_VOLATILITY_NO_TRADE"
       \/ last.news.vol_checked /\ ~last.news.vol_ok

\* C1: every Decision with decision = NO_TRADE has risk_amount = 0 and
\* lots = 0, in the returned setup and in the audit row written for it.
C1_NoTradeZeroRisk ==
    (Emitted /\ last.decision = "NO_TRADE") =>
        /\ last.setup.risk_amount = 0 /\ last.setup.lots = 0
        /\ last.log.risk_amount = 0 /\ last.log.lots = 0

\* a rule-filter rejection that leaves a sized position in the Decision
C1_Witness ==
    /\ Emitted /\ last.decision = "NO_TRADE"
    /\ last.rejection_reason = "LOW_CONFIDENCE"
    /\ last.setup.lots > 0 /\ last.log.risk_amount > 0

\* C2: a Decision taken while the polled blocker reports an active
\* LIVE_EVENT block is NO_TRADE with code HIGH_IMPACT_NEWS, whatever the
\* rule filter, the HTF check and the drift band say.
C2_ActiveBlockForcesNoTrade ==
    (Emitted /\ last.news.polled /\ last.news.is_blocked) =>
        /\ last.decision = "NO_TRADE"
        /\ last.rejection_reason = "HIGH_IMPACT_NEWS"
        /\ last.setup.risk_amount = 0 /\ last.setup.lots = 0

C2_Witness ==
    /\ Emitted /\ last.news.polled /\ last.news.is_blocked
    /\ last.rules_decision = "TRADE"
    /\ last.htf_status = "ALIGNED"
    /\ last.drift_level = "SAFE"
    /\ last.decision = "NO_TRADE"

\* C3 as stated: drift above the warning threshold gives NO_TRADE with code
\* CALIBRATION_UNSTABLE and risk_amount = 0.
C3_DriftAlwaysUnstableCode ==
    (Emitted /\ ~last.error /\ last.calibration_drift > warning_drift) =>
        /\ last.decision = "NO_TRADE"
        /\ last.rejection_reason = "CALIBRATION_UNSTABLE"
        /\ last.setup.risk_amount = 0

\* C3 amended: drift above the warning threshold gives NO_TRADE with
\* risk_amount = 0 and lots = 0; the code is CALIBRATION_UNSTABLE unless the
\* news stage has forced NO_TRADE, and then it is HIGH_IMPACT_NEWS.
C3_DriftCriticalBlocks ==
    (Emitted /\ ~last.error /\ last.calibration_drift > warning_drift) =>
        /\ last.decision = "NO_TRADE"
        /\ last.rejection_reason =
              (IF NewsGateBlocks THEN "HIGH_IMPACT_NEWS" ELSE "CALIBRATION_UNSTABLE")
        /\ last.setup.risk_amount = 0 /\ last.setup.lots = 0
        /\ last.log.risk_amount = 0 /\ last.log.lots = 0

C3_Witness ==
    /\ Emitted /\ last.calibration_drift > warning_drift
    /\ last.rules_decision = "TRADE"
    /\ last.htf_status = "ALIGNED"
    /\ ~NewsGateBlocks
    /\ last.sizer.reason = "HTF_CONFLICT"
    /\ last.rejection_reason = "CALIBRATION_UNSTABLE"

\* C4: a Decision is TRADE only if every gate allows it: the rule filter
\* returned TRADE, the HTF status is not HARD_CONFLICT, the drift level is
\* not CRITICAL, the news assessment allows trading (can_trade) and the
\* sizer's setup is TRADE.
C4_TradeNeedsEveryGate ==
    (Emitted /\ last.decision = "TRADE") =>
        /\ ~last.error
        /\ last.rules_decision = "TRADE"
        /\ last.htf_status # "HARD_CONFLICT"
        /\ last.drift_level # "CRITICAL"
        /\ last.news.can_trade
        /\ last.setup.decision = "TRADE"

\* a TRADE at full news multiplier while the assessment says can_trade = False
C4_Witness ==
    /\ Emitted /\ last.decision = "TRADE"
    /\ last.news.polled /\ ~last.news.can_trade
    /\ last.news.reason = "CALENDAR_BLACKOUT: detail"
    /\ last.news.risk_multiplier = 100
    /\ last.setup.lots > 0

\* What does hold of a TRADE: every gate but the assessment's can_trade
\* allows it, and the blocker reports no active block.
TradePassedOtherGates ==
    (Emitted /\ last.decision = "TRADE") =>
        /\ ~last.error
        /\ last.rules_decision = "TRADE"
        /\ last.htf_status # "HARD_CONFLICT"
        /\ last.drift_level # "CRITICAL"
        /\ ~NewsGateBlocks
        /\ last.setup.decision = "TRADE"
        /\ last.setup.lots > 0

\* the timeframes above tf in the parent map
RECURSIVE AncestorsOf(_)
AncestorsOf(tf) ==
    IF HTF_PARENT_MAP(tf) = "NONE" THEN {}
    ELSE {HTF_PARENT_MAP(tf)} \cup AncestorsOf(HTF_PARENT_MAP(tf))

\* some timeframe above the one just decided is NO_TRADE in this pass
AncestorNoTrade ==
    /\ Emitted
    /\ \E a \in AncestorsOf(last.timeframe) \cap TFs :
          results[a].present /\ results[a].decision = "NO_TRADE"

C6_CombinedIsProduct ==
    (Emitted /\ ~last.error) =>
        /\ last.combined_risk_multiplier * 100 =
              last.htf_risk_multiplier * last.news.risk_multiplier
                 * last.drift_risk_multiplier
        /\ last.combined_risk_multiplier \in 0..10000
        /\ last.htf_risk_multiplier = htf_risk_multiplier_of(last.htf_status)
        /\ last.drift_risk_multiplier = drift_multiplier_of(last.drift_level)

\* soft conflict, a calendar caution of 0.5 and a drift warning: 0.125
C6_Witness ==
    /\ Emitted /\ ~last.error
    /\ last.htf_risk_multiplier = 50
    /\ last.news.risk_multiplier = 50
    /\ last.drift_risk_multiplier = 50
    /\ last.combined_risk_multiplier = 1250

\* C9: once a block's cooldown has lapsed, a timeframe whose volatility
\* confirmation fails (ATR above 1.5x its average, or regime
\* HIGH_VOLATILITY_NO_TRADE) stays NO_TRADE with code HIGH_IMPACT_NEWS.
C9_ResumeNeedsVolatilityConfirmation ==
    ( /\ Emitted /\ ~last.error
      /\ last.news.polled /\ last.news.cooldown_lapsed /\ ~last.news.is_blocked
      /\ (~last.news.vol_ok \/ last.regime = "HIGH_VOLATILITY_NO_TRADE") ) =>
        /\ last.decision = "NO_TRADE"
        /\ last.rejection_reason = "HIGH_IMPACT_NEWS"

\* a TRADE right after the cooldown lapsed, with ATR at 1.7x its average
C9_Witness ==
    /\ Emitted /\ last.news.cooldown_lapsed /\ ~last.news.is_blocked
    /\ ~last.news.vol_ok
    /\ last.decision = "TRADE"
    /\ last.setup.lots > 0

\* C11: a headline that matches the commentary patterns never creates a
\* block, however fresh it is and whatever event type it mentions.
C11_CommentaryNeverBlocks ==
    \A i \in DOMAIN active_blocks : ~is_commentary(active_blocks[i].headline)

\* a fresh analyst headline naming the CPI report stops a timeframe that
\* every other gate let through
C11_Witness ==
    /\ Emitted /\ last.news.polled /\ last.news.is_blocked
    /\ Len(active_blocks) = 1
    /\ is_commentary(active_blocks[1].headline)
    /\ active_blocks[1].classification = "LIVE_EVENT"
    /\ last_block_status.news_event = "CPI"
    /\ last.rules_decision = "TRADE"
    /\ last.rejection_reason = "HIGH_IMPACT_NEWS"

\* a pass of predict_all_timeframes has run to its end
PassComplete == pos = 0 /\ htf_source = "PASS" /\ raised = "NONE"

\* C12: a failing stage ends its timeframe as NO_TRADE with a rejection
\* code, no exception leaves predict_all_timeframes, and a pass that has
\* ended holds a Decision for every timeframe.
C12_FailureEndsLocally ==
    /\ raised # "predict_all_timeframes"
    /\ (Emitted /\ last.error) =>
          (last.decision = "NO_TRADE" /\ last.rejection_reason # "NONE")
    /\ (pos = 0 /\ htf_source = "PASS") => \A tf \in TFs : results[tf].present

\* predict_proba raised on the second timeframe: the pass is over, the
\* first timeframe has a Decision, the others have none
C12_Witness ==
    /\ raised = "predict_all_timeframes" /\ pos = 0
    /\ results[TF_HIERARCHY[1]].present
    /\ \A i \in 2..NumTF : ~results[TF_HIERARCHY[i]].present
    /\ ~Emitted

\* C13: every Decision returned has exactly one audit row, and a pass that
\* ran to its end leaves one Decision and one audit row per timeframe.
C13_OneDecisionOneAuditRow ==
    /\ Emitted => audit_rows[last.timeframe] = 1
    /\ PassComplete =>
          \A tf \in TFs : results[tf].present /\ audit_rows[tf] = 1

\* a finished pass in which the first timeframe ended on an error return:
\* it has a Decision and no audit row
C13_Witness ==
    /\ PassComplete
    /\ \A tf \in TFs : results[tf].present
    /\ results[TF_HIERARCHY[1]].decision = "NO_TRADE"
    /\ audit_rows[TF_HIERARCHY[1]] = 0
    /\ audit_rows[TF_HIERARCHY[NumTF]] = 1

\* C14: the audit row of a timeframe carries the decision and the rejection
\* reason of the Decision returned for it.
C14_AuditRowMatchesDecision ==
    (Emitted /\ last.logged) =>
        /\ last.log.decision = last.decision
        /\ last.log.reason = last.rejection_reason

\* a Decision blocked by news under CRITICAL drift: the Decision says
\* HIGH_IMPACT_NEWS, its audit row CALIBRATION_UNSTABLE
C14_Witness ==
    /\ Emitted /\ last.logged
    /\ last.decision = "NO_TRADE" /\ last.log.decision = "NO_TRADE"
    /\ last.rejection_reason = "HIGH_IMPACT_NEWS"
    /\ last.log.reason = "CALIBRATION_UNSTABLE"

\* C15: the rejection reason of a NO_TRADE Decision is one of the codes
\* that get_rejection_message maps to a message.
C15_ReasonInClosedSet ==
    (Emitted /\ last.decision = "NO_TRADE") =>
        last.rejection_reason \in REJECTION_MESSAGES

\* a Decision blocked on CRITICAL drift carries a code without a message
C15_Witness ==
    /\ Emitted /\ last.decision = "NO_TRADE"
    /\ last.drift_level = "CRITICAL"
    /\ last.rejection_reason = "CALIBRATION_UNSTABLE"
    /\ last.rejection_reason \notin REJECTION_MESSAGES
    /\ last.log.reason = "CALIBRATION_UNSTABLE"

GrandparentOfLast == HTF_PARENT_MAP(HTF_PARENT_MAP(last.timeframe))

\* the grandparent has a result with the opposite direction and regime
\* STRONG_TREND
GrandparentStronglyOpposed ==
    /\ Emitted /\ ~last.error
    /\ GrandparentOfLast \in TFs
    /\ results[GrandparentOfLast].present
    /\ results[GrandparentOfLast].direction \notin {"NONE", last.direction}
    /\ results[GrandparentOfLast].regime = "STRONG_TREND"

\* C18: a timeframe whose grandparent has a result with the opposite
\* direction and regime STRONG_TREND has HTF status HARD_CONFLICT,
\* whatever its parent's result is.
C18_GrandparentHardConflict ==
    GrandparentStronglyOpposed => last.htf_status = "HARD_CONFLICT"

\* 1d DOWN in a strong trend, 4h DOWN in a weak trend and TRADE, 1h UP:
\* SOFT_CONFLICT, and 1h trades at half risk against the daily trend
C18_Witness ==
    /\ GrandparentStronglyOpposed
    /\ last.timeframe = "1h"
    /\ results["4h"].decision = "TRADE" /\ results["4h"].regime = "WEAK_TREND"
    /\ results["4h"].direction = results["1d"].direction
    /\ last.htf_status = "SOFT_CONFLICT"
    /\ last.decision = "TRADE" /\ last.setup.lots > 0

\* C20: the running decision of one evaluation, read after the rule
\* filter, the HTF override, the news stage, the calibration stage and the
\* risk override, never goes from NO_TRADE back to TRADE, and the Decision
\* carries the last of these values.
C20_StagesOnlyDowngrade ==
    (Emitted /\ ~last.error) =>
        /\ Len(last.stages) = 5
        /\ \A i, j \in 1..Len(last.stages) :
              (i < j /\ last.stages[i] = "NO_TRADE") => last.stages[j] = "NO_TRADE"
        /\ last.decision = last.stages[Len(last.stages)]

\* the rule filter rejected, no later gate objected and the sizer worked
\* out a position: the Decision stays NO_TRADE
C20_Witness ==
    /\ Emitted /\ ~last.error
    /\ last.stages[1] = "NO_TRADE"
    /\ last.htf_status = "ALIGNED" /\ ~NewsGateBlocks /\ last.drift_level = "SAFE"
    /\ last.sizer.decision = "TRADE" /\ last.sizer.lots > 0
    /\ last.decision = "NO_TRADE"

\* the timeframe just decided has a model and no fitted calibrator
DecidedUnfitted == Emitted /\ ~last.error /\ last.timeframe \notin fitted

\* C21: a timeframe without a fitted calibrator is flagged
\* (calibration_warning), its drift risk multiplier and with it the
\* combined multiplier are below 1.0, and it is not stopped with
\* CALIBRATION_UNSTABLE.
C21_UnfittedReducesRisk ==
    DecidedUnfitted =>
        /\ last.calibration_warning
        /\ last.drift_risk_multiplier < 100
        /\ last.combined_risk_multiplier < 10000
        /\ last.rejection_reason # "CALIBRATION_UNSTABLE"

\* an unfitted timeframe, flagged, trades at the full multiplier
C21_Witness ==
    /\ DecidedUnfitted
    /\ last.calibration_warning
    /\ last.calibration_drift = 0 /\ last.drift_level = "SAFE"
    /\ last.drift_risk_multiplier = 100
    /\ last.combined_risk_multiplier = 10000
    /\ last.decision = "TRADE" /\ last.setup.lots > 0

\* C24: when no gate objects (drift SAFE, regime STRONG_TREND, calibrated
\* confidence at or above the minimum, HTF status ALIGNED, the news stage
\* not blocking, and the sizer returning a setup with reward:risk at or
\* above the minimum and a non-zero size) the Decision is TRADE with a
\* non-zero size.
C24_NoObjectionTrades ==
    ( /\ Emitted /\ ~last.error
      /\ last.drift_level = "SAFE"
      /\ last.regime = "STRONG_TREND"
      /\ last.calib_conf >= min_confidence
      /\ last.htf_status = "ALIGNED"
      /\ ~NewsGateBlocks
      /\ last.sizer.rr_ok /\ last.sizer.lots > 0 ) =>
        /\ last.decision = "TRADE"
        /\ last.rejection_reason = "NONE"
        /\ last.setup.lots > 0 /\ last.setup.risk_amount > 0
        /\ last.log.decision = "TRADE" /\ last.log.lots = last.setup.lots

\* raw 0.70, calibrated 0.69 (drift 0.01), a strong trend, no news
C24_Witness ==
    /\ Emitted /\ ~last.error
    /\ last.raw_conf = 700000 /\ last.calib_conf = 690000
    /\ last.calibration_drift = 10000 /\ last.drift_level = "SAFE"
    /\ last.regime = "STRONG_TREND"
    /\ last.htf_status = "ALIGNED"
    /\ last.news.polled /\ last.news.can_trade /\ ~last.news.is_blocked
    /\ last.sizer.rr_ok
    /\ last.decision = "TRADE" /\ last.setup.lots > 0

\* the timeframe just decided went through the gates and its parent has no
\* model loaded
ParentModelMissing ==
    /\ Emitted /\ ~last.error
    /\ HTF_PARENT_MAP(last.timeframe) \in TFs \ models

\* C26: a timeframe without a model is NO_TRADE on its own: a pass that ran
\* to its end has evaluated every timeframe, and the child of a timeframe
\* without a model takes no conflict from it (a HARD_CONFLICT below it can
\* only come from a strongly opposed grandparent, and without one the
\* rule filter's verdict is not turned into HTF_CONFLICT).
C26_MissingModelStaysLocal ==
    /\ PassComplete => \A tf \in TFs : results[tf].present
    /\ \A tf \in TFs \ models :
          results[tf].present => results[tf].decision = "NO_TRADE"
    /\ (ParentModelMissing /\ ~GrandparentStronglyOpposed) =>
          /\ last.htf_status # "HARD_CONFLICT"
          /\ last.rejection_reason # "HTF_CONFLICT"
          /\ last.htf_risk_multiplier > 0

\* 4h has no model: 1h, whose rule filter said TRADE in the direction 1d
\* trades, is stopped with HTF_CONFLICT
C26_Witness ==
    /\ ParentModelMissing /\ last.timeframe = "1h"
    /\ results["4h"].present /\ results["4h"].decision = "NO_TRADE"
    /\ results["4h"].direction = "NONE"
    /\ results["1d"].decision = "TRADE" /\ results["1d"].direction = last.direction
    /\ last.rules_decision = "TRADE" /\ last.drift_level = "SAFE"
    /\ last.htf_status = "HARD_CONFLICT"
    /\ last.decision = "NO_TRADE" /\ last.rejection_reason = "HTF_CONFLICT"

\* C23: every row log_signal appends has exactly the fields of the header
\* CSV_COLUMNS, in the header's order.
C23_RowHasHeaderFields ==
    (Emitted /\ last.logged) => RowMatchesHeader(last.log.row)

\* a row of 31 cells under a header of 27 columns; the first 27 cells are
\* in the header's order, four more follow
C23_Witness ==
    /\ Emitted /\ last.logged
    /\ Len(CSV_COLUMNS) = 27 /\ Len(last.log.row) = 31
    /\ \A i \in 1..Len(CSV_COLUMNS) : ColumnOf(last.log.row[i]) = CSV_COLUMNS[i]
    /\ last.log.row[28] = "news_classification"
    /\ audit_rows[last.timeframe] = 1

(***************************************************************************)
(* Properties of the predictor with predict_if_new_candle (specification  *)
(* SpecCandle).                                                            *)
(***************************************************************************)
\* C16: the HTF alignment check of a timeframe that has a parent reads the
\* parent's result from the pass under way, in which the parent was
\* evaluated before it: never a result left over from an earlier pass,
\* never a missing one.
C16_ParentFromSamePass ==
    (Emitted /\ ~last.error /\ HTF_PARENT_MAP(last.timeframe) \in TFs) =>
        /\ htf_source = "PASS"
        /\ results[HTF_PARENT_MAP(last.timeframe)].present

\* predict_if_new_candle on 4h: the 1d result of the last finished pass,
\* NO_TRADE, turns a rule-filter TRADE into HTF_CONFLICT
C16_Witness ==
    /\ Emitted /\ ~last.error /\ last.timeframe = "4h"
    /\ htf_source = "LAST_PREDICTIONS" /\ pos = 0
    /\ results["1d"].present /\ results["1d"].decision = "NO_TRADE"
    /\ results["4h"].present /\ results["4h"].direction # last.direction
    /\ last.rules_decision = "TRADE"
    /\ last.htf_status = "HARD_CONFLICT"
    /\ last.rejection_reason = "HTF_CONFLICT"

\* the parent of the timeframe just decided ("NONE" at the top)
ParentOfLast == HTF_PARENT_MAP(last.timeframe)

\* C19: against a parent that is TRADE, opposite directions give
\* HARD_CONFLICT when the parent's regime is STRONG_TREND and SOFT_CONFLICT
\* otherwise; SOFT_CONFLICT halves the HTF risk multiplier and leaves the
\* decision TRADE when every other gate and the sizer allow it; a timeframe
\* without a parent, or whose parent has no result, is ALIGNED.
C19_HtfStatusAgainstParent ==
    (Emitted /\ ~last.error) =>
        /\ ParentOfLast \notin TFs => last.htf_status = "ALIGNED"
        /\ (ParentOfLast \in TFs /\ ~results[ParentOfLast].present) =>
              last.htf_status = "ALIGNED"
        /\ ( /\ ParentOfLast \in TFs
             /\ results[ParentOfLast].present
             /\ results[ParentOfLast].decision = "TRADE"
             /\ results[ParentOfLast].direction # last.direction ) =>
              last.htf_status =
                 (IF results[ParentOfLast].regime = "STRONG_TREND"
                  THEN "HARD_CONFLICT" ELSE "SOFT_CONFLICT")
        /\ last.htf_status = "SOFT_CONFLICT" => last.htf_risk_multiplier = 50
        /\ ( /\ last.htf_status = "SOFT_CONFLICT"
             /\ last.rules_decision = "TRADE"
             /\ ~NewsGateBlocks
             /\ last.drift_level # "CRITICAL"
             /\ last.sizer.decision = "TRADE" ) =>
              (last.decision = "TRADE" /\ last.setup.lots > 0)

\* a TRADE at half risk against a parent that is TRADE in a weak trend the
\* other way
C19_Witness ==
    /\ Emitted /\ ~last.error /\ ParentOfLast \in TFs
    /\ results[ParentOfLast].decision = "TRADE"
    /\ results[ParentOfLast].regime = "WEAK_TREND"
    /\ results[ParentOfLast].direction # last.direction
    /\ last.htf_status = "SOFT_CONFLICT"
    /\ last.htf_risk_multiplier = 50
    /\ last.combined_risk_multiplier = 5000
    /\ last.decision = "TRADE" /\ last.setup.lots > 0

(***************************************************************************)
(* Properties of the blocker (specification SpecNews).                     *)
(***************************************************************************)
BlockSignature(b) == create_event_signature(b.headline, b.news_type)

BlockSet(blocks) == { blocks[i] : i \in DOMAIN blocks }

\* C7: re-observing an event (same signature, same or older origin) never
\* gives a second active block for it: no block appended later than an
\* active block of the same signature, with an origin that is not newer, is
\* active beside it.
C7_NoSecondActiveBlock ==
    \A i, j \in DOMAIN active_blocks :
        ( /\ i < j
          /\ BlockSignature(active_blocks[i]) = BlockSignature(active_blocks[j])
          /\ active_blocks[j].origin_timestamp <= active_blocks[i].origin_timestamp )
        => ~(is_active(active_blocks[i], now) /\ is_active(active_blocks[j], now))

\* two active blocks of one FOMC statement, the second from the older sighting
C7_Witness ==
    /\ Len(active_blocks) = 2
    /\ active_blocks[1].headline = H_FOMC /\ active_blocks[2].headline = H_FOMC
    /\ active_blocks[2].origin_timestamp < active_blocks[1].origin_timestamp
    /\ is_active(active_blocks[1], now) /\ is_active(active_blocks[2], now)
    /\ active_blocks[2].block_until < active_blocks[1].block_until

\* a block made from an FOMC headline seen with origin 10 minutes and fetch
\* 1 minute before the update that created it
IsFomcScenarioBlock(b) ==
    /\ b.news_type = "FOMC_DECISION"
    /\ b.cooldown_minutes = 150
    /\ b.fetch_timestamp = b.origin_timestamp + 9

\* C8: such a block keeps is_blocked = True until origin + cooldown.
C8_BlockedUntilCooldownEnds ==
    \A i \in DOMAIN active_blocks :
        ( /\ IsFomcScenarioBlock(active_blocks[i])
          /\ now >= active_blocks[i].fetch_timestamp + 1
          /\ now < active_blocks[i].origin_timestamp + 150 )
        => get_block_status(active_blocks, now).is_blocked

\* 60 minutes after the sighting, 80 minutes before origin + cooldown, the
\* blocker reports no block
C8_Witness ==
    /\ Len(active_blocks) = 1
    /\ IsFomcScenarioBlock(active_blocks[1])
    /\ now = active_blocks[1].fetch_timestamp + 61
    /\ now < active_blocks[1].block_until
    /\ ~get_block_status(active_blocks, now).is_blocked
    /\ ~last_block_status.is_blocked

\* an item that validates as LIVE_EVENT at time t
IsLiveItem(it, t) ==
    /\ it.has_origin
    /\ it.fetch_kind # "bad"
    /\ t - (IF it.fetch_kind = "ok" THEN it.fetch ELSE t) <= max_news_age_minutes
    /\ t - it.origin <= impact_relevance_window_minutes

\* block b carries the timestamps of an item that is LIVE_EVENT at time t
FromLiveItem(b, t) ==
    /\ b.classification = "LIVE_EVENT"
    /\ \E it \in ItemChoices(t) :
          /\ IsLiveItem(it, t)
          /\ classify_news(it.headline) = b.news_type
          /\ b.headline = it.headline
          /\ b.origin_timestamp = it.origin
          /\ b.fetch_timestamp = (IF it.fetch_kind = "ok" THEN it.fetch ELSE t)

\* C10: every block an update puts in the set, other than a block that was
\* there and has not expired, comes from an item that is LIVE_EVENT at that
\* time (parseable origin, fetch-age and origin-age within the ceilings)
\* and carries that item's timestamps; a block that was there and has not
\* expired stays, whatever the items are.
C10_OnlyLiveEventsBlock ==
    [][ (active_blocks' # active_blocks) =>
          /\ \A b \in BlockSet(active_blocks') :
                \/ b \in BlockSet(active_blocks) /\ BlockSurvives(b, now)
                \/ FromLiveItem(b, now)
          /\ \A b \in BlockSet(active_blocks) :
                BlockSurvives(b, now) => b \in BlockSet(active_blocks')
      ]_vars

\* a block from a live item standing beside the dedupe entry of a stale one
C10_Witness ==
    /\ Len(active_blocks) = 1
    /\ active_blocks[1].news_type = "CPI"
    /\ \E e \in seen_events : e.sig[1] = "FOMC_DECISION"
    /\ \A i \in DOMAIN active_blocks : active_blocks[i].news_type # "FOMC_DECISION"

\* block b is within both age ceilings at time t
WithinAgeCeilings(b, t) ==
    /\ t - b.origin_timestamp <= high_impact_block_minutes
    /\ t - b.fetch_timestamp <= max_news_age_minutes

\* the block a status reports: in the list, in cooldown, within the ceilings
ReportedBlockIsFresh(st, blocks, t) ==
    \E i \in DOMAIN blocks :
        /\ blocks[i].news_type = st.news_event
        /\ blocks[i].origin_timestamp = st.origin_timestamp
        /\ blocks[i].block_until = st.block_until
        /\ t < blocks[i].origin_timestamp + blocks[i].cooldown_minutes
        /\ WithinAgeCeilings(blocks[i], t)

\* C22: a block is reported only while now < origin + cooldown and while
\* its origin-age and its fetch-age are within their ceilings, so that no
\* block is reported at or after origin + cooldown; and an update leaves no
\* block in the set whose origin-age or fetch-age exceeds its ceiling,
\* cooldown elapsed or not.
C22_ReportedWhileActiveAndFresh ==
    /\ [](get_block_status(active_blocks, now).is_blocked =>
            /\ now < get_block_status(active_blocks, now).block_until
            /\ get_block_status(active_blocks, now).minutes_remaining > 0
            /\ ReportedBlockIsFresh(get_block_status(active_blocks, now),
                                    active_blocks, now))
    /\ [][ (active_blocks' # active_blocks \/ seen_events' # seen_events) =>
             \A b \in BlockSet(active_blocks') : WithinAgeCeilings(b, now) ]_vars

\* 105 minutes after its origin and 45 minutes before origin + cooldown an
\* FOMC block fetched 31 minutes ago is in the set and is not reported
C22_Witness ==
    /\ Len(active_blocks) = 1
    /\ active_blocks[1].news_type = "FOMC_DECISION"
    /\ now < active_blocks[1].block_until
    /\ now - active_blocks[1].origin_timestamp > high_impact_block_minutes
    /\ now - active_blocks[1].fetch_timestamp <= max_news_age_minutes
    /\ ~get_block_status(active_blocks, now).is_blocked

(***************************************************************************)
(* Properties of the scheduler (specification SpecSched).                  *)
(***************************************************************************)
\* C25: at most one thread is inside a decision pass at any time, and no
\* thread reads the block status while another thread is inside
\* update_active_blocks.
C25_SingleDecisionThread ==
    /\ Cardinality(ThreadsAt(PassSteps)) <= 1
    /\ \A t \in 1..MaxThreads : ~sched.threads[t].interleaved

\* start(blocking = False) called twice: one thread decides on "not
\* blocked", read between the pruning and the appending of the other
\* thread's update, while the set now holds a block that is reported
C25_Witness ==
    \E a, b \in 1..MaxThreads :
        /\ a # b
        /\ sched.threads[a].pc = "decide"
        /\ sched.threads[a].interleaved /\ ~sched.threads[a].is_blocked
        /\ sched.threads[b].pc \in {"read", "decide"}
        /\ get_block_status(active_blocks, now).is_blocked
        /\ last_fetch_time = <<now>>

(***************************************************************************)
(* Properties of the trade decision engine (specification SpecEngine).     *)
(***************************************************************************)
\* C27: make_decision returns TRADE only if the D1 bias is not NEUTRAL with
\* confidence at least 0.5, the confirmation is CONFIRM, the entry signal is
\* not NONE and check_all_gates allows the trade; in every other case, an
\* exception of a layer included, it returns NO_TRADE with direction None
\* and confidence 0.0.
C27_NoPermissionNoTrade ==
    call.op = "make_decision" =>
        /\ call.result.decision = "TRADE" =>
              /\ call.args.raises = "NONE"
              /\ call.args.d1.bias # "NEUTRAL" /\ call.args.d1.confidence >= 50
              /\ call.args.h4h1.confirmation = "CONFIRM"
              /\ call.args.entry.entry_signal # "NONE"
              /\ check_all_gates(call.args.d1, call.args.h4h1,
                                 call.args.entry).trade_allowed
        /\ call.result.decision # "TRADE" =>
              /\ call.result.decision = "NO_TRADE"
              /\ call.result.direction = "None"
              /\ call.result.confidence = 0
        /\ decision_history[Len(decision_history)] = call.result.decision

\* D1 BULLISH at 0.50: past the permission layer, stopped by the gate's 0.55,
\* after a call that traded
C27_Witness ==
    /\ call.op = "make_decision"
    /\ call.args.raises = "NONE"
    /\ call.args.d1.bias = "BULLISH" /\ call.args.d1.confidence = 50
    /\ call.args.d1.drift = 0
    /\ call.args.h4h1.confirmation = "CONFIRM"
    /\ call.args.entry.entry_signal = "LONG" /\ call.args.entry.confidence = 60
    /\ call.result.decision = "NO_TRADE" /\ call.result.reason = "D1 Gate"
    /\ call.result.direction = "None"
    /\ decision_history = <<"TRADE", "NO_TRADE">>

(***************************************************************************)
(* Properties of the rule filter (specification SpecRules).                *)
(***************************************************************************)
RegimeRuleFails(a) == a.regime_state \notin {"STRONG_TREND", "WEAK_TREND"}

\* the confidence as check_trade reads it (a value above 1 is a percentage)
\* is below 0.55
ConfidenceRuleFails(a) ==
    IF a.confidence > 100 THEN a.confidence < 5500 ELSE a.confidence < 55

AtrRuleFails(a) == a.current_atr # 0 /\ a.min_atr > 0 /\ a.current_atr < a.min_atr

C29_BelowMinimumIsLowConfidence ==
    ( call.op = "check_trade"
      /\ call.args.regime_state \in allowed_regimes
      /\ call.args.final_conf < min_confidence ) =>
        call.result = <<"NO_TRADE", "LOW_CONFIDENCE">>

\* a calibrated confidence of 0.008 is handed over as 0.8, read as 0.8 and
\* passes the filter
C29_Witness ==
    /\ call.op = "check_trade"
    /\ call.args.regime_state = "STRONG_TREND"
    /\ call.args.final_conf = 8000 /\ call.args.confidence = 80
    /\ call.args.min_atr = 0
    /\ call.result = <<"TRADE", "NONE">>

(***************************************************************************)
(* Properties of the regime detector (specification SpecRegime).           *)
(***************************************************************************)
\* C30: with at least 50 rows detect returns HIGH_VOLATILITY_NO_TRADE when
\* the ATR ratio exceeds the timeframe's spike threshold, whatever the ADX;
\* otherwise STRONG_TREND if the ADX is above the strong cutoff, WEAK_TREND
\* if it is above the weak cutoff, and RANGE in every remaining case, with or
\* without a squeeze; with fewer than 50 rows it returns UNKNOWN.
C30_RangeInEveryRemainingCase ==
    call.op = "detect" =>
        call.result =
          IF call.args.snap.rows < 50 THEN "UNKNOWN"
          ELSE IF call.args.snap.atr * 10
                    > atr_spike(call.args.timeframe) * call.args.snap.atr_avg
               THEN "HIGH_VOLATILITY_NO_TRADE"
          ELSE IF call.args.snap.adx > adx_strong(call.args.timeframe)
               THEN "STRONG_TREND"
          ELSE IF call.args.snap.adx > adx_weak(call.args.timeframe)
               THEN "WEAK_TREND"
          ELSE "RANGE"

\* 60 rows, no spike, ADX 10 and no squeeze on 1h: the answer is UNKNOWN
C30_Witness ==
    /\ call.op = "detect"
    /\ call.args.timeframe = "1h"
    /\ call.args.snap.rows = 60
    /\ call.args.snap.atr = 1000
    /\ call.args.snap.adx = 10 /\ call.args.snap.bbw_pct = 50
    /\ call.result = "UNKNOWN"

(***************************************************************************)
(* Properties of the arbiter (specification Spec): drift bands, sizer,     *)
(* news gate, confidence.                                                  *)
(***************************************************************************)
\* C31: drift = |calibrated - raw| is classified in three bands: at most
\* 0.15 is SAFE with multiplier 1.0; above 0.15 and at most 0.25 is WARNING
\* with the reduced multiplier 0.5, the timeframe may still TRADE and the
\* audit row of such a TRADE carries CALIBRATION_WARNING; above 0.25 is
\* CRITICAL with multiplier 0.0.
C31_ThreeDriftBands ==
    (Emitted /\ ~last.error) =>
        /\ last.calibration_drift = Abs(last.calib_conf - last.raw_conf)
        /\ last.calibration_drift <= 150000 =>
              last.drift_level = "SAFE" /\ last.drift_risk_multiplier = 100
        /\ (last.calibration_drift > 150000 /\ last.calibration_drift <= 250000) =>
              /\ last.drift_level = "WARNING"
              /\ last.drift_risk_multiplier = 50
              /\ last.decision = "TRADE" =>
                    /\ last.logged
                    /\ last.log.decision = "TRADE"
                    /\ last.log.reason = "CALIBRATION_WARNING"
                    /\ last.combined_risk_multiplier <= 5000
        /\ last.calibration_drift > 250000 =>
              last.drift_level = "CRITICAL" /\ last.drift_risk_multiplier = 0

\* a drift of 0.20 that trades at half risk and is logged with the warning
C31_Witness ==
    /\ Emitted /\ ~last.error
    /\ last.calibration_drift = 200000
    /\ last.drift_level = "WARNING"
    /\ last.decision = "TRADE" /\ last.setup.lots > 0
    /\ last.drift_risk_multiplier = 50
    /\ last.log.reason = "CALIBRATION_WARNING"

(***************************************************************************)
(* Properties of the risk sizer (specification SpecSizer).                 *)
(***************************************************************************)
SizerCalled == call.op = "calculate_trade_params" /\ call.args.snap.rows >= 5

\* the distance of the chosen stop from the entry, in cents
StopDistance == Abs(call.args.snap.close - call.levels[1])

\* account_balance x risk_pct / 100 for the risk percentage the arguments
\* give, in hundredths of a cent
RiskBudget ==
    ((account_balance \div 100)
       * Min((get_base_risk(call.args.confidence, call.args.regime) \div 10000)
                * call.args.multiplier, max_risk_pct)) \div 100

\* C32: calculate_trade_params returns NO_TRADE with a rejection code
\* whenever the stop distance is below 0.50, the reward:risk ratio is below
\* 2.0, the combined multiplier is zero or the lot size floors below the
\* minimum lot; every TRADE setup has stop distance >= 0.50, reward:risk >=
\* 2.0, multiplier > 0, risk_pct > 0 and lots > 0.
C32_SizerRejectsOrSizes ==
    SizerCalled =>
        /\ ( \/ StopDistance < 50
             \/ Abs(call.levels[2] - call.args.snap.close) < 2 * StopDistance
             \/ call.args.multiplier = 0
             \/ RiskBudget < StopDistance * 100 ) =>
                /\ call.result.decision = "NO_TRADE"
                /\ call.result.reason \in
                     {"SL_TOO_TIGHT", "BAD_RR", "HTF_CONFLICT", "ZERO_RISK",
                      "LOT_CALC_ERROR"}
                /\ call.result.lots = 0
        /\ call.result.decision = "TRADE" =>
                /\ call.result.stop_distance >= 50
                /\ call.result.stop_distance = StopDistance
                /\ Abs(call.levels[2] - call.args.snap.close) >= 2 * StopDistance
                /\ call.args.multiplier > 0
                /\ call.result.risk_pct > 0
                /\ call.result.lots > 0

\* a stop 0.30 away is refused although the multiplier is full
C32_Witness ==
    /\ SizerCalled
    /\ StopDistance = 30
    /\ call.args.multiplier = 10000 /\ call.args.regime = "STRONG_TREND"
    /\ call.result.decision = "NO_TRADE"
    /\ call.result.reason = "SL_TOO_TIGHT"


\* the swing-based and the volatility-based stop of the call (cents)
SwingStop ==
    IF call.args.direction = "UP"
    THEN call.args.snap.low - (call.args.snap.atr * 3) \div 10
    ELSE call.args.snap.high + (call.args.snap.atr * 3) \div 10

VolatilityStop ==
    IF call.args.direction = "UP"
    THEN call.args.snap.close - (call.args.snap.atr * 15) \div 10
    ELSE call.args.snap.close + (call.args.snap.atr * 15) \div 10

\* C33: for every direction and every price/volatility input the stop
\* chosen by _calculate_levels is the wider of the swing-based and the
\* volatility-based stop, and its distance from the entry never exceeds 5%
\* of the entry price.
C33_WiderStopWithinFivePercent ==
    SizerCalled =>
        /\ StopDistance = Max(Abs(call.args.snap.close - SwingStop),
                              Abs(call.args.snap.close - VolatilityStop))
        /\ StopDistance * 20 <= call.args.snap.close

\* an ATR of 80.00 at a close of 2000.00: the stop is 120.00 away, 6% of
\* the price
C33_Witness ==
    /\ SizerCalled
    /\ call.args.direction = "UP"
    /\ call.args.snap.close = 200000 /\ call.args.snap.atr = 8000
    /\ call.args.snap.low = 198500
    /\ call.levels[1] = 188000
    /\ StopDistance * 20 > call.args.snap.close


BlockKeys(blocks) ==
    { <<blocks[i].news_type, blocks[i].origin_timestamp, blocks[i].block_until>> :
        i \in DOMAIN blocks }

\* the blocks that were saved, as the blocker held them
SavedBlocks(file) ==
    [i \in DOMAIN file.active_blocks |->
        NewsBlock(file.active_blocks[i].news_type,
                  file.active_blocks[i].origin_timestamp,
                  file.active_blocks[i].fetch_timestamp,
                  file.active_blocks[i].headline,
                  file.active_blocks[i].classification)]

\* C34: saving the blocker with save_state and restoring it with
\* load_state, as get_news_blocker does at start-up, gives the same set of
\* active blocks (event type, origin timestamp, block-until time), so a
\* block that was blocking before the restart is blocking after it.
C34_RestartKeepsBlocks ==
    (call.op = "get_news_blocker" /\ call.file.exists) =>
        /\ BlockKeys(call.restored) = BlockKeys(call.file.active_blocks)
        /\ get_block_status(SavedBlocks(call.file), call.at).is_blocked =>
              get_block_status(call.restored, call.at).is_blocked

\* a saved FOMC block, 10 minutes old and blocking, is gone after the restart
C34_Witness ==
    /\ call.op = "get_news_blocker" /\ call.file.exists
    /\ Len(call.file.active_blocks) = 1
    /\ call.file.active_blocks[1].classification = "LIVE_EVENT"
    /\ get_block_status(SavedBlocks(call.file), call.at).is_blocked
    /\ call.restored = <<>>
    /\ active_blocks = <<>>
    /\ ~get_block_status(active_blocks, now).is_blocked

(***************************************************************************)
(* Properties of the blocker (specification SpecNews): order of the blocks *)
(***************************************************************************)
\* a LIVE_EVENT block within its cooldown and within both age ceilings
ValidBlock(b, t) ==
    /\ b.classification = "LIVE_EVENT"
    /\ t < b.origin_timestamp + b.cooldown_minutes
    /\ t - b.origin_timestamp <= 90
    /\ t - b.fetch_timestamp <= 60

\* C35: if the active-block set holds at least one LIVE_EVENT block that is
\* within its cooldown and within the origin-age and fetch-age ceilings,
\* get_block_status(now) reports is_blocked = True, whatever other blocks
\* the set holds and whatever their order.
C35_ValidBlockAlwaysBlocks ==
    (\E i \in DOMAIN active_blocks : ValidBlock(active_blocks[i], now)) =>
        get_block_status(active_blocks, now).is_blocked

\* the first block is in its cooldown but fetched too long ago, the second
\* is valid, and the status says not blocked
C35_Witness ==
    /\ Len(active_blocks) = 2
    /\ is_active(active_blocks[1], now)
    /\ now - active_blocks[1].fetch_timestamp > 60
    /\ ValidBlock(active_blocks[2], now)
    /\ ~get_block_status(active_blocks, now).is_blocked

(***************************************************************************)
(* Properties of the arbiter (specification Spec): the news gate and the   *)
(* confidence of a TRADE.                                                  *)
(***************************************************************************)
\* C36: whenever the news assessment of a timeframe reports can_trade =
\* False (active block, calendar blackout, high-impact headline or imminent
\* event), the timeframe's final decision is NO_TRADE.
C36_CannotTradeIsNoTrade ==
    (Emitted /\ ~last.error /\ last.news.polled /\ ~last.news.can_trade) =>
        /\ last.decision = "NO_TRADE"
        /\ last.setup.lots = 0

\* an imminent event forbids trading, no block is active, the ATR is calm:
\* the decision is TRADE with a position
C36_Witness ==
    /\ Emitted /\ ~last.error
    /\ last.news.polled /\ ~last.news.can_trade
    /\ last.news.reason = "EVENT_IMMINENT: detail"
    /\ ~last.news.is_blocked /\ last.news.vol_checked /\ last.news.vol_ok
    /\ last.decision = "TRADE" /\ last.rejection_reason = "NONE"
    /\ last.log.decision = "TRADE" /\ last.log.lots > 0


\* C37: every decision that is TRADE records a calibrated confidence of at
\* least the rule filter's minimum confidence, for every news-sentiment
\* adjustment applied to the confidence during the evaluation.
C37_TradeConfidenceAtLeastMinimum ==
    (Emitted /\ ~last.error /\ last.decision = "TRADE") =>
        /\ last.final_conf >= 550000
        /\ last.confidence >= 5500

\* calibrated 0.56 passes the rule filter, a fully opposed sentiment takes
\* 0.05 off, and the TRADE is recorded at 0.51
C37_Witness ==
    /\ Emitted /\ ~last.error /\ last.decision = "TRADE"
    /\ last.rules_decision = "TRADE"
    /\ last.calib_conf = 560000
    /\ last.final_conf = 510000 /\ last.confidence = 5100
    /\ last.setup.lots > 0

(***************************************************************************)
(* Properties of the two prediction modes (specification SpecModes).       *)
(***************************************************************************)
\* C39: for the same per-timeframe inputs (raw and calibrated probability,
\* regime, parent results, news assessment, price data), the loop body of
\* main in batch mode and predict_single_timeframe in live mode reach the
\* same decision and the same rejection reason.
C39_BatchMatchesLive ==
    call.op = "predict" =>
        /\ call.batch.decision = call.live.decision
        /\ call.batch.rejection_reason = call.live.rejection_reason

\* raw 0.90 calibrated to 0.60 on a trending 1d frame with news off: live
\* mode rejects the drift of 0.30, batch mode trades a position
C39_Witness ==
    /\ call.op = "predict"
    /\ call.args.tf = "1d" /\ ~call.args.news_on /\ call.args.is_fitted
    /\ call.args.inp.raw_prob_up = 900000 /\ call.args.inp.calib_prob_up = 600000
    /\ call.live.drift_level = "CRITICAL"
    /\ call.live.decision = "NO_TRADE"
    /\ call.live.rejection_reason = "CALIBRATION_UNSTABLE"
    /\ call.batch.decision = "TRADE" /\ call.batch.rejection_reason = "NONE"
    /\ call.batch.lots > 0

====
